---- MODULE Spec2Model ----
(***************************************************************************)
(* Copy-trading engine: command dispatcher (CommandExecutor), replication  *)
(* fan-out (ReplicationService) and the proportional sizing calculator.    *)
(*                                                                         *)
(* Amounts are counted in integer units; the exchange lot step is Step     *)
(* units, so every position held on the exchange is a multiple of Step.    *)
(* The Python floats are modelled as exact rationals [n, d] with d > 0.    *)
(* None is modelled by the value 0 where the code tests truthiness         *)
(* (min_amount, min_cost, ticker.last, equity) and by an ok = FALSE        *)
(* record where the code returns None.                                     *)
(***************************************************************************)
EXTENDS Integers, Sequences, FiniteSets, TLC

\* ------------------------------------------------------------------------
\* Bounds of the model
\* ------------------------------------------------------------------------
Step == 2
MaxCmds == 2
MaxCalcContracts == 4
MaxAdapters == 2

\* largest position, in lots, the account of the adapter check holds
MaxAdapterLots == 2

\* largest amount, in halves of a unit, handed to the limit adjustment check
MaxAdjustHalves == 10

\* longest symbol string handed to the canonicalization check
MaxLoops == 3

MaxSymbolLen == 4

\* ------------------------------------------------------------------------
\* Program constants
\* ------------------------------------------------------------------------
FOLLOWER_MAX_LEVERAGE == 50
BudgetPercent == 90
CalcCostMarginPercent == 105
AdjustCostMarginPercent == 101
MinEquity == 1

\* ------------------------------------------------------------------------
\* Exact rationals
\* ------------------------------------------------------------------------
RECURSIVE Gcd(_, _)
Gcd(a, b) == IF b = 0 THEN a ELSE Gcd(b, a % b)

Abs(x) == IF x < 0 THEN -x ELSE x

Min(a, b) == IF a <= b THEN a ELSE b

R(n, d) ==
    LET g == Gcd(Abs(n), Abs(d))
        s == IF d < 0 THEN -1 ELSE 1
    IN  IF g = 0 THEN [n |-> 0, d |-> 1]
        ELSE [n |-> s * (n \div g), d |-> s * (d \div g)]

RInt(i) == [n |-> i, d |-> 1]
RMul(a, b) == R(a.n * b.n, a.d * b.d)
RDiv(a, b) == R(a.n * b.d, a.d * b.n)
RLt(a, b) == a.n * b.d < b.n * a.d
RLe(a, b) == a.n * b.d <= b.n * a.d
RFloor(a) == a.n \div a.d

\* ------------------------------------------------------------------------
\* Adapter: normalize_amount (ccxt amount_to_precision truncates to the lot
\* step; a result of zero is refused with InvalidOrder, raised = TRUE)
\* ------------------------------------------------------------------------
normalize_amount(a) ==
    LET lots == RFloor(RDiv(a, RInt(Step)))
    IN  IF lots <= 0 THEN [raised |-> TRUE, amount |-> 0]
        ELSE [raised |-> FALSE, amount |-> lots * Step]

\* ------------------------------------------------------------------------
\* utils/calculator.py: calculate_follower_amount
\* ------------------------------------------------------------------------
NoResult == [ok |-> FALSE, amount |-> 0, leverage |-> 0]

\* calc_price = float(ticker.get('last') or leader_position.mark_price)
calc_price(last, mark) == IF last # 0 THEN last ELSE mark

\* contracts * entry / L / El * Ef * L / price
proportional_amount(c, e, Ef, El, L, p) ==
    LET leader_position_notional == RInt(c * e)
        leader_margin_used == RDiv(leader_position_notional, RInt(L))
        leader_margin_ratio == RDiv(leader_margin_used, RInt(El))
        proportional_follower_margin == RMul(RInt(Ef), leader_margin_ratio)
        proportional_follower_notional == RMul(proportional_follower_margin, RInt(L))
    IN  RDiv(proportional_follower_notional, RInt(p))

\* the lift to amount.min and then to cost.min (with the 1.05 margin)
effective_amount(prop, min_amount, min_cost, p) ==
    LET amount_for_min_cost == RMul(R(min_cost, p), R(CalcCostMarginPercent, 100))
        a1 == IF min_amount # 0 /\ RLt(prop, RInt(min_amount))
              THEN RInt(min_amount) ELSE prop
    IN  IF min_cost # 0 /\ RLt(RMul(a1, RInt(p)), RInt(min_cost))
        THEN amount_for_min_cost ELSE a1

follower_safety_budget_95(Ef) == R(Ef * 95, 100)

follower_safety_budget(Ef) == R(Ef * BudgetPercent, 100)

\* a variant with a headroom of 1 above the floor
effective_leverage_headroom_one(a, p, L, Ef) ==
    LET position_notional_value == RMul(a, RInt(p))
        budget == follower_safety_budget(Ef)
        lev0 == Abs(L)
        required_margin == RDiv(position_notional_value, RInt(lev0))
        min_leverage_needed == RDiv(position_notional_value, budget)
        elevated == Min(FOLLOWER_MAX_LEVERAGE, RFloor(min_leverage_needed) + 1)
        lev == IF RLt(budget, required_margin) THEN elevated ELSE lev0
        final_required_margin == RDiv(position_notional_value, RInt(lev))
    IN  IF RLt(budget, required_margin)
           /\ RLt(RInt(FOLLOWER_MAX_LEVERAGE), min_leverage_needed)
        THEN [ok |-> FALSE, leverage |-> 0, elevated |-> TRUE]
        ELSE IF RLt(budget, final_required_margin)
        THEN [ok |-> FALSE, leverage |-> 0, elevated |-> RLt(budget, required_margin)]
        ELSE [ok |-> TRUE, leverage |-> lev, elevated |-> RLt(budget, required_margin)]

\* the leverage the calculator settles on; ok = FALSE where it returns None
effective_leverage(a, p, L, Ef) ==
    LET position_notional_value == RMul(a, RInt(p))
        budget == follower_safety_budget(Ef)
        lev0 == Abs(L)
        required_margin == RDiv(position_notional_value, RInt(lev0))
        min_leverage_needed == RDiv(position_notional_value, budget)
        elevated == Min(FOLLOWER_MAX_LEVERAGE, RFloor(min_leverage_needed) + 2)
        lev == IF RLt(budget, required_margin) THEN elevated ELSE lev0
        final_required_margin == RDiv(position_notional_value, RInt(lev))
    IN  IF RLt(budget, required_margin)
           /\ RLt(RInt(FOLLOWER_MAX_LEVERAGE), min_leverage_needed)
        THEN [ok |-> FALSE, leverage |-> 0, elevated |-> TRUE]
        ELSE IF RLt(budget, final_required_margin)
        THEN [ok |-> FALSE, leverage |-> 0, elevated |-> RLt(budget, required_margin)]
        ELSE [ok |-> TRUE, leverage |-> lev, elevated |-> RLt(budget, required_margin)]

calculate_follower_amount(c, e, mark, Ef, El, L, min_amount, min_cost, last, infoOk) ==
    IF El <= MinEquity \/ Ef <= MinEquity THEN NoResult
    ELSE IF ~infoOk THEN NoResult
    ELSE LET p == calc_price(last, mark) IN
    IF p <= 0 THEN NoResult
    ELSE IF L = 0 THEN NoResult     \* ZeroDivisionError, caught at line 142
    ELSE LET a == effective_amount(proportional_amount(c, e, Ef, El, L, p),
                                   min_amount, min_cost, p)
             lv == effective_leverage(a, p, L, Ef)
             fin == normalize_amount(a)
         IN  IF ~lv.ok THEN NoResult
             ELSE IF fin.raised \/ fin.amount <= 0 THEN NoResult
             ELSE [ok |-> TRUE, amount |-> fin.amount, leverage |-> Abs(lv.leverage)]

\* ------------------------------------------------------------------------
\* utils/calculator.py: adjust_amount_for_limits (amount is a rational)
\* ------------------------------------------------------------------------
adjust_amount_for_limits(amount, min_amount, min_cost, p, infoOk) ==
    IF ~infoOk \/ p <= 0 THEN [ok |-> FALSE, amount |-> 0]
    ELSE LET a1 == IF min_amount # 0 /\ RLt(amount, RInt(min_amount))
                   THEN RInt(min_amount) ELSE amount
             amount_for_min_cost ==
                 RMul(R(min_cost, p), R(AdjustCostMarginPercent, 100))
             a2 == IF min_cost # 0 /\ RLt(RMul(a1, RInt(p)), RInt(min_cost))
                   THEN amount_for_min_cost ELSE a1
             fin == normalize_amount(a2)
         IN  IF fin.raised THEN [ok |-> FALSE, amount |-> 0]
             ELSE [ok |-> TRUE, amount |-> fin.amount]

\* ------------------------------------------------------------------------
\* models/order.py
\* ------------------------------------------------------------------------
\* raw_data is a dict: keys holds its top-level keys, the other fields the
\* values the engine reads from it
EmptyRaw == [keys |-> {}, info_reduceOnly |-> FALSE, params_reduceOnly |-> FALSE,
             cd_leverage |-> 0]

\* Order(id=None, ..., status='failed', error_message=msg): order_type keeps
\* its default 'market', filled its default 0.0, raw_data becomes {}
FailedOrder(side, amount) ==
    [id_null |-> TRUE, side |-> side, amount |-> amount, status |-> "failed",
     order_type |-> "market", filled |-> 0, raw_data |-> EmptyRaw]

NoOrder == FailedOrder("none", 0)

\* Order.from_ccxt_response: every field is read from the exchange's
\* response, which is kept whole as raw_data
from_ccxt_response(data) ==
    [id_null |-> FALSE, side |-> data.side, amount |-> data.amount,
     status |-> data.status, order_type |-> data.type, filled |-> data.filled,
     raw_data |-> [keys |-> {"id", "symbol", "side", "amount", "status", "type",
                             "filled", "info"},
                   info_reduceOnly |-> data.info_reduceOnly,
                   params_reduceOnly |-> FALSE,
                   cd_leverage |-> 0]]

\* ------------------------------------------------------------------------
\* adapters/binance_adapter.py: place_order against the exchange account
\* holding the signed quantity qty (positionAmt: > 0 long, < 0 short)
\* ------------------------------------------------------------------------
SideOf(qty) == IF qty > 0 THEN "long" ELSE IF qty < 0 THEN "short" ELSE "none"

\* the exchange refuses a malformed side and a reduce-only order that would
\* open or enlarge a position
Refused(qty, side, reduceOnly) ==
    \/ side \notin {"buy", "sell"}
    \/ reduceOnly /\ (qty = 0 \/ (side = "buy" /\ qty > 0) \/ (side = "sell" /\ qty < 0))

place_order(qty, order_type, side, amount, reduceOnly, outcome) ==
    IF outcome = "reject" \/ Refused(qty, side, reduceOnly)
    THEN [order |-> FailedOrder(side, amount), qty |-> qty]
    ELSE LET filled == IF outcome # "closed" THEN 0
                       ELSE IF reduceOnly THEN Min(amount, Abs(qty)) ELSE amount
             data == [side |-> side, amount |-> amount, status |-> outcome,
                      type |-> order_type, filled |-> filled,
                      info_reduceOnly |-> reduceOnly]
         IN  [order |-> from_ccxt_response(data),
              qty |-> IF side = "buy" THEN qty + filled ELSE qty - filled]

\* ------------------------------------------------------------------------
\* services/command_executor.py: the handlers.  A handler's result is
\* [kind, order, value, calls, qty, lev]: what it returned (an Order, a bool
\* or a dict), the adapter calls it made on the leader in order, and the
\* leader account's quantity and leverage afterwards.
\* M = [min_amount, min_cost, price] is the market the adapter reports.
\* ------------------------------------------------------------------------
Call(op, ok, side, amount, reduceOnly, type) ==
    [op |-> op, ok |-> ok, side |-> side, amount |-> amount,
     reduceOnly |-> reduceOnly, type |-> type]

CallLev(ok) == Call("set_leverage", ok, "none", 0, FALSE, "none")
CallAdj(r) == Call("adjust_amount", r.ok, "none", r.amount, FALSE, "none")
CallPos(qty) == Call("get_positions", qty # 0, SideOf(qty), Abs(qty), FALSE, "none")
CallOrder(o, type, side, amount, reduceOnly) ==
    Call("place_order", o.status # "failed", side, amount, reduceOnly, type)

HOrder(calls, order, qty, lev) ==
    [kind |-> "order", order |-> order, value |-> order.status # "failed",
     calls |-> calls, qty |-> qty, lev |-> lev]

HOther(kind, value, calls, qty, lev) ==
    [kind |-> kind, order |-> NoOrder, value |-> value,
     calls |-> calls, qty |-> qty, lev |-> lev]

\* a variant that places the order whatever set_leverage returned
handle_open_position_unchecked(c, qty, lev, M, levOk, infoOk, outcome) ==
    LET adj == adjust_amount_for_limits(RInt(c.amount), M.min_amount, M.min_cost,
                                        M.price, infoOk)
        po == place_order(qty, c.order_type, c.action, adj.amount, FALSE, outcome)
    IN  IF ~adj.ok
        THEN HOrder(<<CallLev(levOk), CallAdj(adj)>>, FailedOrder(c.action, c.amount),
                    qty, IF levOk THEN c.leverage ELSE lev)
        ELSE HOrder(<<CallLev(levOk), CallAdj(adj),
                      CallOrder(po.order, c.order_type, c.action, adj.amount, FALSE)>>,
                    po.order, po.qty, IF levOk THEN c.leverage ELSE lev)

handle_open_position(c, qty, lev, M, levOk, infoOk, outcome) ==
    LET adj == adjust_amount_for_limits(RInt(c.amount), M.min_amount, M.min_cost,
                                        M.price, infoOk)
        po == place_order(qty, c.order_type, c.action, adj.amount, FALSE, outcome)
    IN  IF ~levOk
        THEN HOrder(<<CallLev(FALSE)>>, FailedOrder(c.action, c.amount), qty, lev)
        ELSE IF ~adj.ok
        THEN HOrder(<<CallLev(TRUE), CallAdj(adj)>>, FailedOrder(c.action, c.amount),
                    qty, c.leverage)
        ELSE HOrder(<<CallLev(TRUE), CallAdj(adj),
                      CallOrder(po.order, c.order_type, c.action, adj.amount, FALSE)>>,
                    po.order, po.qty, c.leverage)

\* a variant that orders on the position's own side
handle_close_position_same_side(c, qty, lev, seen, outcome) ==
    LET side == IF SideOf(seen) = "long" THEN "buy" ELSE "sell"
        po == place_order(qty, "market", side, Abs(seen), TRUE, outcome)
    IN  IF seen = 0
        THEN HOrder(<<CallPos(seen)>>, FailedOrder("unknown", 0), qty, lev)
        ELSE HOrder(<<CallPos(seen),
                      CallOrder(po.order, "market", side, Abs(seen), TRUE)>>,
                    po.order, po.qty, lev)

\* seen is the quantity get_positions reported (0 when the read failed)
handle_close_position(c, qty, lev, seen, outcome) ==
    LET side == IF SideOf(seen) = "long" THEN "sell" ELSE "buy"
        po == place_order(qty, "market", side, Abs(seen), TRUE, outcome)
    IN  IF seen = 0
        THEN HOrder(<<CallPos(seen)>>, FailedOrder("unknown", 0), qty, lev)
        ELSE HOrder(<<CallPos(seen),
                      CallOrder(po.order, "market", side, Abs(seen), TRUE)>>,
                    po.order, po.qty, lev)

\* target close amount: 'amount' if the command has it, else percentage
original_amount_to_close(c, contracts) ==
    IF c.has_amount THEN RInt(c.amount)
    ELSE IF c.has_percentage THEN RMul(RInt(contracts), R(c.percentage, 100))
    ELSE RInt(0)

\* a variant without the upper bound on the adjusted amount
handle_scale_out_unbounded(c, qty, lev, M, seen, infoOk, outcome) ==
    LET target == original_amount_to_close(c, Abs(seen))
        adj == adjust_amount_for_limits(target, M.min_amount, M.min_cost, M.price, infoOk)
        side == IF SideOf(seen) = "long" THEN "sell" ELSE "buy"
        po == place_order(qty, c.order_type, side, adj.amount, TRUE, outcome)
    IN  IF seen = 0
        THEN HOrder(<<CallPos(seen)>>, FailedOrder("unknown", 0), qty, lev)
        ELSE IF RLe(target, RInt(0))
        THEN HOrder(<<CallPos(seen)>>, FailedOrder("unknown", 0), qty, lev)
        ELSE IF ~adj.ok
        THEN HOrder(<<CallPos(seen), CallAdj(adj)>>, FailedOrder("unknown", 0), qty, lev)
        ELSE HOrder(<<CallPos(seen), CallAdj(adj),
                      CallOrder(po.order, c.order_type, side, adj.amount, TRUE)>>,
                    po.order, po.qty, lev)

handle_scale_out(c, qty, lev, M, seen, infoOk, outcome) ==
    LET target == original_amount_to_close(c, Abs(seen))
        adj == adjust_amount_for_limits(target, M.min_amount, M.min_cost, M.price, infoOk)
        side == IF SideOf(seen) = "long" THEN "sell" ELSE "buy"
        po == place_order(qty, c.order_type, side, adj.amount, TRUE, outcome)
    IN  IF seen = 0
        THEN HOrder(<<CallPos(seen)>>, FailedOrder("unknown", 0), qty, lev)
        ELSE IF RLe(target, RInt(0))
        THEN HOrder(<<CallPos(seen)>>, FailedOrder("unknown", 0), qty, lev)
        ELSE IF ~adj.ok \/ adj.amount > Abs(seen)
        THEN HOrder(<<CallPos(seen), CallAdj(adj)>>, FailedOrder("unknown", 0), qty, lev)
        ELSE HOrder(<<CallPos(seen), CallAdj(adj),
                      CallOrder(po.order, c.order_type, side, adj.amount, TRUE)>>,
                    po.order, po.qty, lev)

\* side = command['action'], which on this path is the action scale_in
handle_scale_in(c, qty, lev, M, seen, infoOk, outcome) ==
    LET adj == adjust_amount_for_limits(RInt(c.amount), M.min_amount, M.min_cost,
                                        M.price, infoOk)
        side == c.action
        po == place_order(qty, c.order_type, side, adj.amount, FALSE, outcome)
    IN  IF seen = 0
        THEN HOrder(<<CallPos(seen)>>, FailedOrder("unknown", 0), qty, lev)
        ELSE IF c.amount <= 0
        THEN HOrder(<<CallPos(seen)>>, FailedOrder("unknown", c.amount), qty, lev)
        ELSE IF ~adj.ok
        THEN HOrder(<<CallPos(seen), CallAdj(adj)>>, FailedOrder("unknown", c.amount),
                    qty, lev)
        ELSE IF (SideOf(seen) = "long" /\ side # "buy")
                \/ (SideOf(seen) = "short" /\ side # "sell")
        THEN HOrder(<<CallPos(seen), CallAdj(adj)>>, FailedOrder(side, c.amount),
                    qty, lev)
        ELSE HOrder(<<CallPos(seen), CallAdj(adj),
                      CallOrder(po.order, c.order_type, side, adj.amount, FALSE)>>,
                    po.order, po.qty, lev)

handle_set_leverage(c, qty, lev, levOk) ==
    HOther("bool", levOk, <<CallLev(levOk)>>, qty, IF levOk THEN c.leverage ELSE lev)

handle_cancel_order(c, qty, lev, cancelOk) ==
    IF ~c.has_order_id
    THEN HOther("dict", FALSE, <<>>, qty, lev)
    ELSE HOther("dict", cancelOk,
                <<Call("cancel_order", cancelOk, "none", 0, FALSE, "none")>>, qty, lev)

\* ------------------------------------------------------------------------
\* services/replication_service.py
\* ------------------------------------------------------------------------
Followers == {"f1", "f2"}

\* dict.get(key, default) on raw_data
is_reduce_only(order) ==
    \/ ("info" \in order.raw_data.keys /\ order.raw_data.info_reduceOnly)
    \/ ("params" \in order.raw_data.keys /\ order.raw_data.params_reduceOnly)

\* leader_command.get('leverage', leader_position.leverage)
leader_intended_leverage(order, leader_position) ==
    IF "command_details" \in order.raw_data.keys
    THEN order.raw_data.cd_leverage
    ELSE leader_position.leverage

FLog(status, placed, side, amount, reduceOnly, pre, calcCalled, calcLev, setLev, exact, qty) ==
    [status |-> status, placed |-> placed, side |-> side, amount |-> amount,
     reduceOnly |-> reduceOnly, pre |-> pre, calcCalled |-> calcCalled,
     calcLev |-> calcLev, setLev |-> setLev, exact |-> exact, qty |-> qty]

FIdle(qty) == FLog("none", FALSE, "none", 0, FALSE, Abs(qty), FALSE, 0, 0, FALSE, qty)

\* a variant that divides by the contracts the leader has left
percentage_of_remaining(leader_position, order) ==
    R(order.filled, leader_position.contracts)

\* the fraction of its position the leader closed
percentage_to_close(leader_position, order) ==
    R(order.filled, leader_position.contracts + order.filled)

\* the tail of _replicate_for_single_follower: amount check, normalize,
\* place the market order, map the outcome
place_follower_order(fq, side, amount, reduceOnly, calcCalled, calcLev, setLev, exact, fe) ==
    LET fin == normalize_amount(amount)
        po == place_order(fq, "market", side, fin.amount, reduceOnly, fe.outcome)
    IN  IF RLe(amount, RInt(0))
        THEN FLog("skipped", FALSE, side, 0, reduceOnly, Abs(fq), calcCalled, calcLev,
                  setLev, FALSE, fq)
        ELSE IF fin.raised
        THEN FLog("failed", FALSE, side, 0, reduceOnly, Abs(fq), calcCalled, calcLev,
                  setLev, FALSE, fq)
        ELSE FLog(IF po.order.status = "failed" THEN "failed" ELSE "success",
                  TRUE, side, fin.amount, reduceOnly, Abs(fq), calcCalled, calcLev,
                  setLev, exact /\ po.order.filled = fin.amount, po.qty)

\* the open / increase branch: calc is what calculate_follower_amount
\* returned, prop the unrounded proportional amount
replicate_open(order, L, calc, prop, fq, fe) ==
    IF ~calc.ok
    THEN FLog("skipped", FALSE, order.side, 0, FALSE, Abs(fq), TRUE, L, 0, FALSE, fq)
    ELSE place_follower_order(fq, order.side, RInt(calc.amount), FALSE, TRUE, L,
                              calc.leverage,
                              RInt(calc.amount) = prop /\ calc.leverage = L, fe)

\* a variant that closes the leader's filled amount on the placeholder
replicate_reduce_leader_amount(order, leader_position, close_side, fq, fe) ==
    IF fq = 0
    THEN FLog("skipped", FALSE, close_side, 0, TRUE, 0, FALSE, 0, 0, FALSE, fq)
    ELSE place_follower_order(fq, close_side, RInt(order.filled), TRUE, FALSE, 0, 0,
                              FALSE, fe)

\* the reduce-only branch: close everything for the placeholder, else the
\* fraction the leader closed
replicate_reduce(order, leader_position, close_side, fq, fe) ==
    IF fq = 0
    THEN FLog("skipped", FALSE, close_side, 0, TRUE, 0, FALSE, 0, 0, FALSE, fq)
    ELSE IF leader_position.is_placeholder
    THEN place_follower_order(fq, close_side, RInt(Abs(fq)), TRUE, FALSE, 0, 0, FALSE, fe)
    ELSE IF leader_position.contracts + order.filled = 0
    THEN FLog("failed", FALSE, close_side, 0, TRUE, Abs(fq), FALSE, 0, 0, FALSE, fq)
    ELSE place_follower_order(
             fq, close_side,
             RMul(RInt(Abs(fq)), percentage_to_close(leader_position, order)),
             TRUE, FALSE, 0, 0, FALSE, fe)

\* line 107 is outside the try of line 112: what get_adapter raises leaves
\* the coroutine and no record is returned
replicate_for_single_follower(order, leader_position, El, Ef, fq, M, fe) ==
    IF fe.adapterRaises
    THEN FLog("raised", FALSE, "none", 0, FALSE, Abs(fq), FALSE, 0, 0, FALSE, fq)
    ELSE IF ~fe.adapterOk
    THEN FLog("failed", FALSE, "none", 0, FALSE, Abs(fq), FALSE, 0, 0, FALSE, fq)
    ELSE IF Ef <= MinEquity
    THEN FLog("skipped", FALSE, "none", 0, FALSE, Abs(fq), FALSE, 0, 0, FALSE, fq)
    ELSE IF is_reduce_only(order)
    THEN replicate_reduce(order, leader_position,
                          IF leader_position.side = "long" THEN "sell" ELSE "buy",
                          fq, fe)
    ELSE replicate_open(
             order, leader_intended_leverage(order, leader_position),
             calculate_follower_amount(
                 leader_position.contracts, leader_position.entry_price,
                 leader_position.mark_price, Ef, El,
                 leader_intended_leverage(order, leader_position),
                 M.min_amount, M.min_cost, M.price, TRUE),
             proportional_amount(
                 leader_position.contracts, leader_position.entry_price, Ef, El,
                 leader_intended_leverage(order, leader_position), M.price),
             fq, fe)

\* the Position the fan-out works from: the leader's live position, or the
\* placeholder built for a reduce-only order that left none
LivePosition(qty, lev, M) ==
    [side |-> SideOf(qty), contracts |-> Abs(qty), entry_price |-> M.price,
     mark_price |-> M.price, leverage |-> lev, is_placeholder |-> FALSE]

PlaceholderPosition(order) ==
    [side |-> IF order.side = "sell" THEN "long" ELSE "short", contracts |-> 0,
     entry_price |-> 0, mark_price |-> 0, leverage |-> 1, is_placeholder |-> TRUE,
     closed_amount |-> order.filled]

\* asyncio.gather(*tasks) without return_exceptions: the first exception of
\* a task leaves replicate_action, the other tasks run on to their end
gather_status(fenv) ==
    IF \E f \in Followers : fenv[f].adapterRaises THEN "raised" ELSE "completed"

\* lines 85-92: the summary counted from the records
summary(flog) ==
    [total_followers |-> Cardinality(Followers),
     successful |-> Cardinality({f \in Followers : flog[f].status = "success"}),
     failed |-> Cardinality({f \in Followers : flog[f].status = "failed"}),
     skipped |-> Cardinality({f \in Followers : flog[f].status = "skipped"})]

\* a variant that fans out whatever the leader's equity and position are
replicate_action_unguarded(order, seen, seenLev, El, Ef, fqs, M, fenv) ==
    [invoked |-> TRUE, status |-> gather_status(fenv), placeholder |-> seen = 0,
     flog |-> [f \in Followers |->
                 replicate_for_single_follower(
                     order,
                     IF seen # 0 THEN LivePosition(seen, seenLev, M)
                     ELSE PlaceholderPosition(order),
                     El, Ef[f], fqs[f], M, fenv[f])]]

\* seen, seenLev: the quantity and leverage the leader's get_positions
\* reported (seen = 0: no position, or the read failed)
replicate_action(order, seen, seenLev, El, Ef, fqs, M, fenv) ==
    LET idle == [f \in Followers |-> FIdle(fqs[f])]
        lp == IF seen # 0 THEN LivePosition(seen, seenLev, M)
              ELSE PlaceholderPosition(order)
    IN  IF El <= MinEquity
        THEN [invoked |-> TRUE, status |-> "error", placeholder |-> FALSE, flog |-> idle]
        ELSE IF seen = 0 /\ ~is_reduce_only(order)
        THEN [invoked |-> TRUE, status |-> "error", placeholder |-> FALSE, flog |-> idle]
        ELSE [invoked |-> TRUE, status |-> gather_status(fenv),
              placeholder |-> lp.is_placeholder,
              flog |-> [f \in Followers |->
                          replicate_for_single_follower(order, lp, El, Ef[f], fqs[f],
                                                        M, fenv[f])]]

NotReplicated(fqs) ==
    [invoked |-> FALSE, status |-> "none", placeholder |-> FALSE,
     flog |-> [f \in Followers |-> FIdle(fqs[f])]]

\* ------------------------------------------------------------------------
\* services/command_executor.py: execute
\* ------------------------------------------------------------------------
\* lines 76-80: the handler returned an Order, not failed, of type market
should_replicate(h) ==
    h.kind = "order" /\ h.order.status # "failed" /\ h.order.order_type = "market"

\* the status of the single record execute returns
execute_status(h) ==
    IF h.kind = "order"
    THEN IF h.order.status # "failed" THEN "success" ELSE "failed"
    ELSE "success"

\* lines 45-53: the keys of handler_map
HandlerActions ==
    {"buy", "sell", "close_position", "scale_out", "scale_in", "set_leverage", "cancel"}

\* lines 35-59, before the try of line 61: command.get("action", "").lower()
\* fails on a value that is no string ("null": the key is there with None);
\* an action without a handler is answered with one failed record
dispatch_status(action) ==
    IF action = "null" THEN "raised"
    ELSE IF action \notin HandlerActions THEN "failed"
    ELSE "dispatched"

\* lines 105-107: an exception out of replicate_action is caught by execute
execute_status_after(h, rstatus) ==
    IF rstatus = "raised" THEN "failed" ELSE execute_status(h)

\* ------------------------------------------------------------------------
\* core/exchange_manager.py: the adapter pool.
\* A descriptor (api_info) is [user_id, exchange_id, complete]: complete
\* says that user_id, exchange_id, api_key and api_secret are all present
\* and non-empty.  An adapter object is a number 1, 2, ... in order of
\* construction; 0 stands for None.
\* ------------------------------------------------------------------------
Registered == {"binance"}

\* str.lower() on the exchange ids in use
Lower(e) == IF e = "BINANCE" THEN "binance" ELSE IF e = "BYBIT" THEN "bybit" ELSE e

NoSlot == [set |-> FALSE, user_id |-> "none", exchange_id |-> "none"]

\* set_leader_api_info: a descriptor missing a required field clears the slot
set_leader_api_info(leader_info) ==
    IF ~leader_info.complete THEN NoSlot
    ELSE [set |-> TRUE, user_id |-> leader_info.user_id,
          exchange_id |-> leader_info.exchange_id]

\* a variant that falls back on the request when the leader slot is unset
api_info_to_use_fallback(api_info, slot) ==
    IF api_info.user_id = "leader" /\ slot.set
    THEN [ok |-> TRUE, user_id |-> slot.user_id, exchange_id |-> slot.exchange_id]
    ELSE [ok |-> TRUE, user_id |-> api_info.user_id,
          exchange_id |-> api_info.exchange_id]

\* get_adapter lines 54-68: the descriptor the call works with (api_info_to_use)
api_info_to_use(api_info, slot) ==
    IF api_info.user_id = "leader"
    THEN IF ~slot.set
         THEN [ok |-> FALSE, user_id |-> "none", exchange_id |-> "none"]
         ELSE [ok |-> TRUE, user_id |-> slot.user_id, exchange_id |-> slot.exchange_id]
    ELSE IF ~api_info.complete
         THEN [ok |-> FALSE, user_id |-> "none", exchange_id |-> "none"]
         ELSE [ok |-> TRUE, user_id |-> api_info.user_id,
               exchange_id |-> api_info.exchange_id]

\* cache_key = f"{user_id}_{exchange_id.lower()}"
cache_key(d) == <<d.user_id, Lower(d.exchange_id)>>

\* _active_adapters: a dict, kept as the sequence of its items in insertion order
HasKey(table, key) == \E i \in 1..Len(table) : table[i].key = key

Lookup(table, key) ==
    IF HasKey(table, key)
    THEN table[CHOOSE i \in 1..Len(table) : table[i].key = key].adapter
    ELSE 0

Put(table, key, a) ==
    IF HasKey(table, key)
    THEN [i \in 1..Len(table) |->
            IF table[i].key = key THEN [key |-> key, adapter |-> a] ELSE table[i]]
    ELSE Append(table, [key |-> key, adapter |-> a])

\* a variant of the lookup that never finds the key
lookup_uncached(table, key) == 0

\* get_adapter lines 74-82, up to the construction of a new adapter:
\* what the call does with the key
\*   "hit"     the cached adapter is returned
\*   "unknown" no adapter class for the exchange id: None
\*   "build"   a new adapter is constructed and connect is awaited
lookup_adapter(table, key) == Lookup(table, key)

get_adapter_step(d, table) ==
    IF ~d.ok THEN [do |-> "invalid", adapter |-> 0]
    ELSE IF lookup_adapter(table, cache_key(d)) # 0
    THEN [do |-> "hit", adapter |-> lookup_adapter(table, cache_key(d))]
    ELSE IF cache_key(d)[2] \notin Registered
    THEN [do |-> "unknown", adapter |-> 0]
    ELSE [do |-> "build", adapter |-> 0]

\* get_adapter lines 86-94: the table after connect returned (ok) or raised
connect_outcome(table, key, a, ok) == IF ok THEN Put(table, key, a) ELSE table

\* utils/helpers.py load_api_keys_from_file(only_copy_trade_enabled=True) and
\* the filter of replicate_action / _run_sync_cycle on the leader's user_id
load_api_keys_from_file(store) ==
    {[user_id |-> s.user_id, exchange_id |-> Lower(s.exchange_id), complete |-> TRUE] :
        s \in {x \in store : x.status = "active" /\ x.copy_trade_enabled /\ x.keys_ok}}

followers_of(store, leader_api_info) ==
    {f \in load_api_keys_from_file(store) : f.user_id # leader_api_info.user_id}

\* ------------------------------------------------------------------------
\* adapters/binance_adapter.py: one call of place_order or set_leverage as
\* the caller sees it.  raised is the exception that left the call ("none":
\* the call returned).
\* ------------------------------------------------------------------------
MarginNoChangeCode == -4046

\* lines 67-103: the connection check, the post_only rewrite and the two
\* price checks stand before the try; only create_order is guarded
place_order_call(connected, order_type, has_price, post_only, qty, side, amount, reduceOnly, outcome) ==
    IF ~connected
    THEN [raised |-> "ConnectionError", sent |-> FALSE, sent_type |-> "none",
          postOnly |-> FALSE, order |-> NoOrder, qty |-> qty]
    ELSE IF (order_type = "post_only" \/ post_only) /\ ~has_price
    THEN [raised |-> "ValueError", sent |-> FALSE, sent_type |-> "none",
          postOnly |-> TRUE, order |-> NoOrder, qty |-> qty]
    ELSE \* lines 98-103
         [raised |-> "none", sent |-> TRUE,
          sent_type |-> IF order_type = "post_only" THEN "limit" ELSE order_type,
          postOnly |-> (order_type = "post_only" \/ post_only),
          order |-> place_order(qty, IF order_type = "post_only" THEN "limit"
                                     ELSE order_type,
                                side, amount, reduceOnly, outcome).order,
          qty |-> place_order(qty, IF order_type = "post_only" THEN "limit"
                                   ELSE order_type,
                              side, amount, reduceOnly, outcome).qty]

\* a variant whose price checks are inside the try
place_order_call_guarded(connected, order_type, has_price, post_only, qty, side, amount, reduceOnly, outcome) ==
    IF connected /\ (order_type = "post_only" \/ post_only) /\ ~has_price
    THEN [raised |-> "none", sent |-> FALSE, sent_type |-> "none",
          postOnly |-> TRUE, order |-> FailedOrder(side, amount), qty |-> qty]
    ELSE place_order_call(connected, order_type, has_price, post_only, qty, side,
                          amount, reduceOnly, outcome)

\* what exchange.set_leverage raised: e is a ccxt.ExchangeError or not,
\* carries a code attribute or not, and its text has the sentinel or not
NoError ==
    [raised |-> FALSE, isExchangeError |-> FALSE, hasCode |-> FALSE, code |-> 0,
     noNeedText |-> FALSE]

\* line 123
is_margin_no_change(e) ==
    e.hasCode /\ e.code = MarginNoChangeCode /\ e.noNeedText

\* a variant that takes the retry's success for granted
set_leverage_retry_unchecked(connected, e, retryOk) ==
    IF ~connected THEN [raised |-> "ConnectionError", value |-> FALSE, retried |-> FALSE]
    ELSE [raised |-> "none",
          value |-> (~e.raised \/ (e.isExchangeError /\ is_margin_no_change(e))),
          retried |-> (e.raised /\ e.isExchangeError /\ is_margin_no_change(e))]

\* lines 106-144
set_leverage_call(connected, e, retryOk) ==
    IF ~connected
    THEN [raised |-> "ConnectionError", value |-> FALSE, retried |-> FALSE]
    ELSE IF ~e.raised
    THEN [raised |-> "none", value |-> TRUE, retried |-> FALSE]
    ELSE IF e.isExchangeError
    THEN IF is_margin_no_change(e)
         THEN [raised |-> "none", value |-> retryOk, retried |-> TRUE]
         ELSE [raised |-> "none", value |-> FALSE, retried |-> FALSE]
    ELSE [raised |-> "none", value |-> FALSE, retried |-> FALSE]

\* ------------------------------------------------------------------------
\* utils/helpers.py: format_symbol_for_ccxt.  A string is a sequence of
\* one-character strings.
\* ------------------------------------------------------------------------
Whitespace == {" "}

\* symbol.split(':')[0]
SplitColon(s) ==
    IF \E i \in 1..Len(s) : s[i] = ":"
    THEN SubSeq(s, 1, (CHOOSE i \in 1..Len(s) :
                          s[i] = ":" /\ \A j \in 1..(i - 1) : s[j] # ":") - 1)
    ELSE s

RECURSIVE RStripSet(_, _)
RStripSet(s, cs) ==
    IF s # <<>> /\ s[Len(s)] \in cs THEN RStripSet(SubSeq(s, 1, Len(s) - 1), cs) ELSE s

RECURSIVE LStripSet(_, _)
LStripSet(s, cs) ==
    IF s # <<>> /\ s[1] \in cs THEN LStripSet(Tail(s), cs) ELSE s

\* str.strip()
Strip(s) == LStripSet(RStripSet(s, Whitespace), Whitespace)

UpperChar(c) == IF c = "b" THEN "B" ELSE c

\* str.upper()
Upper(s) == [i \in 1..Len(s) |-> UpperChar(s[i])]

EndsWith(s, q) == Len(s) >= Len(q) /\ SubSeq(s, Len(s) - Len(q) + 1, Len(s)) = q

quote_currencies ==
    << <<"U", "S", "D", "T">>, <<"U", "S", "D", "C">>, <<"B", "U", "S", "D">>,
       <<"F", "D", "U", "S", "D">>, <<"T", "U", "S", "D">>, <<"D", "A", "I">>,
       <<"T", "R", "Y">>, <<"B", "T", "C">>, <<"E", "T", "H">> >>

\* lines 49-66: the first quote the symbol ends with, with a non-empty base;
\* else the default quote USDT
RECURSIVE split_quote(_, _)
split_quote(upper_symbol, k) ==
    IF k > Len(quote_currencies)
    THEN IF upper_symbol # <<>> THEN upper_symbol \o <<"/", "U", "S", "D", "T">>
         ELSE <<>>
    ELSE IF EndsWith(upper_symbol, quote_currencies[k])
            /\ Len(upper_symbol) > Len(quote_currencies[k])
    THEN RStripSet(SubSeq(upper_symbol, 1, Len(upper_symbol) - Len(quote_currencies[k])),
                   {"-"})
            \o <<"/">> \o quote_currencies[k]
    ELSE split_quote(upper_symbol, k + 1)

symbol_cleaned(symbol) == RStripSet(Strip(SplitColon(symbol)), {"-"})

format_symbol_for_ccxt(symbol) ==
    IF symbol = <<>> THEN <<>>
    ELSE IF \E i \in 1..Len(symbol_cleaned(symbol)) : symbol_cleaned(symbol)[i] = "/"
    THEN Upper(symbol_cleaned(symbol))
    ELSE split_quote(Upper(symbol_cleaned(symbol)), 1)

\* ------------------------------------------------------------------------
\* State
\* ------------------------------------------------------------------------
VARIABLES
    env,      \* equities and market limits the exchange reports (fixed)
    lqty,     \* leader account: signed position quantity on the symbol
    llev,     \* leader account: leverage set on the symbol
    fqty,     \* follower accounts: signed position quantity on the symbol
    cmd,      \* the command of the last execute
    hres,     \* what its handler returned and the leader calls it made
    rep,      \* its replication: summary status and the per-follower records
    status,   \* the status of the record execute returned
    grow,     \* per follower: so far only replicated, exactly sized buys
    n,        \* number of commands executed
    calcIn,   \* sizing calculator check: the inputs
    calcOut,  \* sizing calculator check: the result
    active,     \* ExchangeManager._active_adapters
    leaderSlot, \* ExchangeManager._leader_api_info
    adapters,   \* every adapter object constructed so far
    task,       \* the coroutines using the manager: where each one stands
    overlap,    \* a get_adapter began while another was connecting the same key
    areq,       \* adapter call check: the request
    ares,       \* adapter call check: what the call did
    exchange,   \* adapter call check: self.exchange and the account behind it
    adjIn,      \* limit adjustment check: the inputs
    adjOut,     \* limit adjustment check: the result
    symIn,      \* symbol check: the string
    symOut,     \* symbol check: canonicalized once and twice
    sync,       \* SyncService: _is_running and where the loop task stands
    lead,       \* sync check: the leader account's positions per symbol
    fol,        \* sync check: the follower account's signed quantities
    cyc,        \* sync check: the reconciliation cycle in flight
    life,       \* start/stop check: the flag, self._task and every loop task
    conc,       \* concurrency check: executes and a sync cycle on one follower
    acct        \* convergence check: the leader account as the cycles read it

mgrVars == <<active, leaderSlot, adapters, task, overlap>>

adpVars == <<areq, ares, exchange>>

adjVars == <<adjIn, adjOut>>

symVars == <<symIn, symOut>>

syncVars == <<sync, lead, fol, cyc>>

lifeVars == <<life>>

concVars == <<conc>>

acctVars == <<acct>>

vars == <<env, lqty, llev, fqty, cmd, hres, rep, status, grow, n, calcIn, calcOut,
          active, leaderSlot, adapters, task, overlap, areq, ares, exchange,
          adjIn, adjOut, symIn, symOut, sync, lead, fol, cyc,
          life, conc, acct>>

sysVars == <<env, lqty, llev, fqty, cmd, hres, rep, status, grow, n>>

\* ------------------------------------------------------------------------
\* The coroutines that use the manager.  Between two awaits a coroutine runs
\* alone (one event loop); it can be suspended in connect, in the close of a
\* half-built adapter, and in each close of close_all_adapters.
\*   pc       where it is suspended ("idle": not in a call)
\*   purpose  what its last call was for: "execute" (the leader adapter of
\*            CommandExecutor.execute), "follower" (the adapter of one
\*            follower in a fan-out or a sync cycle), "close_all"
\*   did      what get_adapter did with the request
\*   result   what get_adapter returned: an adapter, 0 for None, -1 when an
\*            exception left the call
\* ------------------------------------------------------------------------
Tasks == {"t1", "t2"}

NoApi == [user_id |-> "none", exchange_id |-> "none", complete |-> FALSE]

IdleTask ==
    [pc |-> "idle", purpose |-> "none", api |-> NoApi, key |-> <<"none", "none">>,
     adapter |-> 0, slotSet |-> FALSE, did |-> "none", cached |-> 0, result |-> 0,
     status |-> "none", handler |-> FALSE, placedOn |-> "none", onLeader |-> FALSE,
     todo |-> <<>>, snapshot |-> <<>>, left |-> <<>>]

MgrIdle ==
    /\ active = <<>>
    /\ leaderSlot = NoSlot
    /\ adapters = <<>>
    /\ task = [t \in Tasks |-> IdleTask]
    /\ overlap = FALSE

NoRequest == [op |-> "none"]

NoCallResult ==
    [done |-> FALSE, connected |-> FALSE, raised |-> "none", sent |-> FALSE,
     sent_type |-> "none", postOnly |-> FALSE, order |-> NoOrder, value |-> FALSE,
     retried |-> FALSE]

SyncSymbols == <<"DOGE", "ETH">>

SyncSymbolSet == {SyncSymbols[i] : i \in DOMAIN SyncSymbols}

NoPosition == [side |-> "none", contracts |-> 0, entry_price |-> 0, stamped |-> FALSE]

NoTicker == [outcome |-> "none", last |-> 0]

NoSync == [running |-> FALSE, loop |-> "none", failed |-> FALSE, afterFailure |-> FALSE]

NoCycle ==
    [pc |-> "none", leader_positions |-> {},
     follower_positions |-> [s \in SyncSymbolSet |-> 0],
     held |-> [s \in SyncSymbolSet |-> 0], leader_read |-> TRUE, admitted |-> FALSE,
     raised |-> FALSE,
     todo |-> <<>>, ticker |-> NoTicker, age |-> 0, amount |-> 0, leverage_set |-> FALSE,
     orders |-> <<>>]

SyncIdle ==
    /\ sync = NoSync
    /\ lead = [s \in SyncSymbolSet |-> NoPosition]
    /\ fol = [s \in SyncSymbolSet |-> 0]
    /\ cyc = NoCycle

StopCallers == {"a", "b"}

NoLife ==
    [is_running |-> FALSE, task |-> 0, loops |-> <<>>,
     stop |-> [c \in StopCallers |-> [pc |-> "idle", target |-> 0]], last |-> "none"]

LifeIdle == life = NoLife

Commands == {1, 2}

NoConc ==
    [exec |-> [e \in Commands |-> "idle"], syncf |-> "idle", leader_seen |-> FALSE,
     follower_seen |-> FALSE, inflight |-> {}, log |-> <<>>, lpos |-> 0, fpos |-> 0,
     overlapped |-> FALSE]

ConcIdle == conc = NoConc

NoAcct == [leader_value_ok |-> TRUE]

AcctIdle == acct = NoAcct

SymIdle ==
    /\ symIn = <<>>
    /\ symOut = [done |-> FALSE, once |-> <<>>, twice |-> <<>>]

AdjIdle ==
    /\ adjIn = [amount |-> R(1, 1), min_amount |-> 0, min_cost |-> 0, price |-> 0,
                infoOk |-> FALSE]
    /\ adjOut = [done |-> FALSE, res |-> [ok |-> FALSE, amount |-> 0]]

AdpIdle ==
    /\ areq = NoRequest
    /\ ares = NoCallResult
    /\ exchange = [open |-> FALSE, qty |-> 0]

\* ------------------------------------------------------------------------
\* Inputs
\* ------------------------------------------------------------------------
LeaderEquities == {1, 100}
SecondFollowerEquities == {1, 3}
CmdAmounts == {1, 2 * Step}
\* (amount.min, cost.min) the market reports; 0 = not defined
Limits == {<<0, 0>>, <<Step, 30>>}
CmdLeverages == {5}
Percentages == {0, 75, 100, 150}

Market == [min_amount |-> env.min_amount, min_cost |-> env.min_cost,
           price |-> env.price]

NoCmd == [action |-> "none", amount |-> 0, has_amount |-> FALSE, percentage |-> 0,
          has_percentage |-> FALSE, leverage |-> 0, order_type |-> "market",
          has_order_id |-> FALSE]

OpenCmds ==
    {[NoCmd EXCEPT !.action = a, !.amount = m, !.has_amount = TRUE,
                   !.leverage = l, !.order_type = t] :
        a \in {"buy", "sell"}, m \in CmdAmounts, l \in CmdLeverages,
        t \in {"market", "limit"}}

ScaleOutCmds ==
    {[NoCmd EXCEPT !.action = "scale_out", !.amount = m, !.has_amount = TRUE,
                   !.order_type = t] : m \in {0} \cup CmdAmounts, t \in {"market", "limit"}}
    \cup
    {[NoCmd EXCEPT !.action = "scale_out", !.percentage = q,
                   !.has_percentage = (q # 0)] : q \in Percentages}

ScaleInCmds ==
    {[NoCmd EXCEPT !.action = "scale_in", !.amount = m, !.has_amount = TRUE] :
        m \in {0} \cup CmdAmounts}

\* what the exchange answers to an order it does not refuse outright
Outcomes(type) ==
    IF type = "market" THEN {"closed", "canceled", "unknown", "reject"}
    ELSE {"open", "reject"}

\* get_adapter for the follower returns an adapter, returns None, or raises
\* (connect failed and the close that follows failed too)
FollowerEnvs == {[adapterOk |-> TRUE, adapterRaises |-> FALSE, outcome |-> "closed"],
                 [adapterOk |-> TRUE, adapterRaises |-> FALSE, outcome |-> "reject"],
                 [adapterOk |-> FALSE, adapterRaises |-> FALSE, outcome |-> "reject"],
                 [adapterOk |-> FALSE, adapterRaises |-> TRUE, outcome |-> "reject"]}

\* get_positions returns [] when the exchange call fails; with no position
\* held a failed read and a good one look the same
Reads(qty) == IF qty # 0 THEN BOOLEAN ELSE {TRUE}

\* Position.from_ccxt_response derives the leverage from the margin with
\* int(), so the report may fall one below the leverage that was set
ReportedLeverages(lev) == IF lev > 1 THEN {lev, lev - 1} ELSE {lev}

\* ------------------------------------------------------------------------
\* Init: leader and followers connected, accounts as the exchange holds them
\* ------------------------------------------------------------------------
CalcIdle == [c |-> 0, e |-> 0, mark |-> 0, Ef |-> 0, El |-> 0, L |-> 0,
             min_amount |-> 0, min_cost |-> 0, last |-> 0]

Init ==
    /\ \E El \in LeaderEquities, x \in SecondFollowerEquities, lim \in Limits :
         env = [El |-> El, Ef |-> [f \in Followers |-> IF f = "f1" THEN 50 ELSE x],
                min_amount |-> lim[1], min_cost |-> lim[2], price |-> 10]
    /\ lqty \in {0, 4 * Step}
    /\ llev = 3
    /\ fqty \in {[f \in Followers |-> IF f = "f1" THEN a ELSE b] :
                    a \in {0, 2 * Step}, b \in {0, -Step}}
    /\ cmd = NoCmd
    /\ hres = HOther("none", FALSE, <<>>, lqty, llev)
    /\ rep = NotReplicated(fqty)
    /\ status = "none"
    /\ grow = [f \in Followers |-> lqty = 0 /\ fqty[f] = 0]
    /\ n = 0
    /\ calcIn = CalcIdle
    /\ calcOut = [done |-> FALSE, res |-> NoResult]
    /\ MgrIdle
    /\ AdpIdle
    /\ AdjIdle
    /\ SymIdle
    /\ SyncIdle
    /\ LifeIdle
    /\ ConcIdle
    /\ AcctIdle

\* ------------------------------------------------------------------------
\* execute(command): the handler has run with result h; replicate if the
\* result calls for it, and record the outcome
\* ------------------------------------------------------------------------
Commit(c, h) ==
    /\ cmd' = c
    /\ hres' = h
    /\ lqty' = h.qty
    /\ llev' = h.lev
    /\ n' = n + 1
    /\ UNCHANGED <<env, calcIn, calcOut, mgrVars, adpVars, adjVars, symVars, syncVars, lifeVars, concVars, acctVars>>
    /\ IF should_replicate(h)
       THEN \E rread \in Reads(h.qty), seenLev \in ReportedLeverages(h.lev),
               fenv \in [Followers -> FollowerEnvs] :
              \E r \in {replicate_action(h.order, IF rread THEN h.qty ELSE 0, seenLev,
                                         env.El, env.Ef, fqty, Market, fenv)} :
                  /\ rep' = r
                  /\ status' = execute_status_after(h, r.status)
                  /\ fqty' = [f \in Followers |-> r.flog[f].qty]
                  /\ grow' = [f \in Followers |->
                                /\ grow[f]
                                /\ c.action = "buy"
                                /\ h.order.status = "closed"
                                /\ h.order.filled = c.amount
                                /\ r.status = "completed"
                                /\ r.flog[f].status = "success"
                                /\ r.flog[f].calcLev = c.leverage
                                /\ r.flog[f].exact]
       ELSE /\ rep' = NotReplicated(fqty)
            /\ status' = execute_status(h)
            /\ fqty' = fqty
            /\ grow' = [f \in Followers |-> FALSE]

\* the dispatcher is serial: a command is taken when none is being reported
Ready == n < MaxCmds /\ cmd.action = "none"

ExecuteOpen ==
    /\ Ready
    /\ \E c \in OpenCmds, levOk \in BOOLEAN, infoOk \in BOOLEAN :
         \E outcome \in Outcomes(c.order_type) :
           \* choices the handler never reaches are left at one value
           /\ (~levOk \/ ~infoOk) => outcome = "reject"
           /\ ~levOk => infoOk
           /\ Commit(c, handle_open_position(c, lqty, llev, Market, levOk, infoOk, outcome))

ExecuteClose ==
    /\ Ready
    /\ \E hread \in Reads(lqty), outcome \in Outcomes("market") :
         LET c == [NoCmd EXCEPT !.action = "close_position"]
         IN  Commit(c, handle_close_position(c, lqty, llev,
                                             IF hread THEN lqty ELSE 0, outcome))

ExecuteScaleOut ==
    /\ Ready
    /\ \E c \in ScaleOutCmds, hread \in Reads(lqty), infoOk \in BOOLEAN :
         \E outcome \in Outcomes(c.order_type) :
           /\ ~infoOk => outcome = "reject"
           /\ Commit(c, handle_scale_out(c, lqty, llev, Market,
                                      IF hread THEN lqty ELSE 0, infoOk, outcome))

ExecuteScaleIn ==
    /\ Ready
    /\ \E c \in ScaleInCmds, hread \in Reads(lqty), infoOk \in BOOLEAN :
         \E outcome \in Outcomes(c.order_type) :
           /\ ~infoOk => outcome = "reject"
           /\ Commit(c, handle_scale_in(c, lqty, llev, Market,
                                     IF hread THEN lqty ELSE 0, infoOk, outcome))

ExecuteSetLeverage ==
    /\ Ready
    /\ \E l \in CmdLeverages, levOk \in BOOLEAN :
         LET c == [NoCmd EXCEPT !.action = "set_leverage", !.leverage = l]
         IN  Commit(c, handle_set_leverage(c, lqty, llev, levOk))

ExecuteCancel ==
    /\ Ready
    /\ \E hasId \in BOOLEAN, cancelOk \in BOOLEAN :
         LET c == [NoCmd EXCEPT !.action = "cancel", !.has_order_id = hasId]
         IN  Commit(c, handle_cancel_order(c, lqty, llev, cancelOk))

\* commands whose action has no handler: an unknown word, and a value that
\* is no string
OtherActions == {"hold", "null"}

ExecuteOther ==
    /\ Ready
    /\ \E a \in OtherActions :
         /\ cmd' = [NoCmd EXCEPT !.action = a]
         /\ status' = dispatch_status(a)
    /\ hres' = HOther("none", FALSE, <<>>, lqty, llev)
    /\ rep' = NotReplicated(fqty)
    /\ grow' = [f \in Followers |-> FALSE]
    /\ n' = n + 1
    /\ UNCHANGED <<env, lqty, llev, fqty, calcIn, calcOut, mgrVars, adpVars, adjVars, symVars, syncVars, lifeVars, concVars, acctVars>>

\* the caller takes the record execute returned; the dispatcher is idle again
Collect ==
    /\ cmd.action # "none"
    /\ cmd' = NoCmd
    /\ hres' = HOther("none", FALSE, <<>>, lqty, llev)
    /\ rep' = NotReplicated(fqty)
    /\ status' = "none"
    /\ UNCHANGED <<env, lqty, llev, fqty, grow, n, calcIn, calcOut, mgrVars, adpVars, adjVars, symVars, syncVars, lifeVars, concVars, acctVars>>

Next ==
    \/ Collect
    \/ ExecuteOpen
    \/ ExecuteClose
    \/ ExecuteScaleOut
    \/ ExecuteScaleIn
    \/ ExecuteSetLeverage
    \/ ExecuteCancel
    \/ ExecuteOther

Spec == Init /\ [][Next]_vars

\* ------------------------------------------------------------------------
\* The sizing calculator on its own: inputs drawn from bounded sets
\* ------------------------------------------------------------------------
CalcContracts == {k * Step : k \in 1..MaxCalcContracts}
CalcPrices == {10, 23}
CalcFollowerEquities == {1, 3, 20, 50, 1000}
CalcLeaderEquities == {1, 100, 5000}
CalcLeverages == {0, 1, 2, 5, 50, 75}
CalcLimits == {<<0, 0>>, <<Step, 30>>, <<1, 5>>, <<Step, 500>>}

SysIdle ==
    /\ env = [El |-> 100, Ef |-> [f \in Followers |-> 50],
              min_amount |-> 0, min_cost |-> 0, price |-> 10]
    /\ lqty = 0
    /\ llev = 1
    /\ fqty = [f \in Followers |-> 0]
    /\ cmd = NoCmd
    /\ hres = HOther("none", FALSE, <<>>, 0, 1)
    /\ rep = NotReplicated(fqty)
    /\ status = "none"
    /\ grow = [f \in Followers |-> FALSE]
    /\ n = 0

InitCalc ==
    /\ SysIdle
    /\ \E c \in CalcContracts, e \in CalcPrices, last \in {0} \cup CalcPrices,
          Ef \in CalcFollowerEquities, El \in CalcLeaderEquities,
          L \in CalcLeverages, lim \in CalcLimits :
         calcIn = [c |-> c, e |-> e, mark |-> e, Ef |-> Ef, El |-> El, L |-> L,
                   min_amount |-> lim[1], min_cost |-> lim[2], last |-> last]
    /\ calcOut = [done |-> FALSE, res |-> NoResult]
    /\ MgrIdle
    /\ AdpIdle
    /\ AdjIdle
    /\ SymIdle
    /\ SyncIdle
    /\ LifeIdle
    /\ ConcIdle
    /\ AcctIdle

Calculate ==
    /\ ~calcOut.done
    /\ calcOut' = [done |-> TRUE,
                   res |-> calculate_follower_amount(
                              calcIn.c, calcIn.e, calcIn.mark, calcIn.Ef, calcIn.El,
                              calcIn.L, calcIn.min_amount, calcIn.min_cost,
                              calcIn.last, TRUE)]
    /\ UNCHANGED <<calcIn, sysVars, mgrVars, adpVars, adjVars, symVars, syncVars, lifeVars, concVars, acctVars>>

NextCalc == Calculate

SpecCalc == InitCalc /\ [][NextCalc]_vars

\* ------------------------------------------------------------------------
\* The adapter pool under concurrent use
\* ------------------------------------------------------------------------
\* database/api_keys.json as load_api_keys_from_file reads it
CredentialStore ==
    {[user_id |-> "u1", exchange_id |-> "binance", status |-> "active",
      copy_trade_enabled |-> TRUE, keys_ok |-> TRUE],
     [user_id |-> "u2", exchange_id |-> "BYBIT", status |-> "active",
      copy_trade_enabled |-> TRUE, keys_ok |-> TRUE],
     [user_id |-> "u3", exchange_id |-> "binance", status |-> "active",
      copy_trade_enabled |-> FALSE, keys_ok |-> TRUE],
     [user_id |-> "u4", exchange_id |-> "binance", status |-> "inactive",
      copy_trade_enabled |-> TRUE, keys_ok |-> TRUE],
     [user_id |-> "u5", exchange_id |-> "binance", status |-> "active",
      copy_trade_enabled |-> TRUE, keys_ok |-> FALSE]}

\* self.leader_api_info of CommandExecutor and of SyncService
LeaderRequest == [user_id |-> "leader", exchange_id |-> "binance", complete |-> FALSE]

\* what set_leader_api_info is called with: the leader's account under its
\* real user_id (u1 is also listed in the credential store)
LeaderInfos ==
    {[user_id |-> "u0", exchange_id |-> "BINANCE", complete |-> TRUE],
     [user_id |-> "u1", exchange_id |-> "binance", complete |-> TRUE],
     [user_id |-> "u0", exchange_id |-> "binance", complete |-> FALSE]}

\* the descriptors get_adapter is called with for a follower
FollowerRequests ==
    followers_of(CredentialStore, LeaderRequest)
        \cup {[user_id |-> "u3", exchange_id |-> "binance", complete |-> FALSE]}

\* preClose: a close_all_adapters returned after the adapter was constructed
NewAdapter(key) ==
    [key |-> key, state |-> "connecting", closeTried |-> FALSE, closed |-> FALSE,
     preClose |-> FALSE]

\* close_all_adapters returns: every adapter constructed so far is older
close_all_returned(objs) == [i \in DOMAIN objs |-> [objs[i] EXCEPT !.preClose = TRUE]]

\* the caller's next lines once get_adapter has returned: execute lines 39-74
\* (None: failed, no handler), _replicate_for_single_follower lines 107-110
\* and _synchronize_follower lines 98-101 (None: no order on that account)
Returned(rec, result, leaderKey) ==
    [rec EXCEPT !.pc = "idle",
                !.result = result,
                !.status = IF result = -1 THEN "raised"
                           ELSE IF result = 0 THEN "failed" ELSE "ok",
                !.handler = (rec.purpose = "execute" /\ result > 0),
                !.placedOn = IF rec.purpose = "follower" /\ result > 0
                             THEN rec.key[1] ELSE "none",
                !.onLeader = (rec.purpose = "follower" /\ result > 0
                              /\ rec.key = leaderKey)]

LeaderKey == IF leaderSlot.set THEN cache_key(leaderSlot) ELSE <<"none", "none">>

Busy(t) == \E u \in Tasks \ {t} : task[u].pc # "idle"

SetLeader ==
    /\ \E info \in LeaderInfos : leaderSlot' = set_leader_api_info(info)
    /\ UNCHANGED <<active, adapters, task, overlap, sysVars, calcIn, calcOut, adpVars, adjVars, symVars, syncVars, lifeVars, concVars, acctVars>>

\* get_adapter up to its first await (lines 44-87)
GetAdapter(t) ==
    /\ task[t].pc = "idle"
    /\ \E purpose \in {"execute", "follower"} :
       \E api \in (IF purpose = "execute" THEN {LeaderRequest} ELSE FollowerRequests) :
       \E d \in {api_info_to_use(api, leaderSlot)} :
       \E s \in {get_adapter_step(d, active)} :
       \E rec \in {[IdleTask EXCEPT !.purpose = purpose, !.api = api,
                                    !.key = cache_key(d), !.slotSet = leaderSlot.set,
                                    !.did = s.do,
                                    !.cached = Lookup(active, cache_key(d))]} :
         \* a follower is served once the leader adapter has been obtained
         /\ purpose = "follower" => Lookup(active, LeaderKey) # 0
         /\ IF s.do = "build"
            THEN /\ Len(adapters) < MaxAdapters
                 /\ adapters' = Append(adapters, NewAdapter(cache_key(d)))
                 /\ task' = [task EXCEPT ![t] =
                               [rec EXCEPT !.pc = "connecting",
                                           !.adapter = Len(adapters) + 1]]
            ELSE /\ adapters' = adapters
                 /\ task' = [task EXCEPT ![t] = Returned(rec, s.adapter, LeaderKey)]
         /\ overlap' = (overlap \/ Busy(t))
    /\ UNCHANGED <<active, leaderSlot, sysVars, calcIn, calcOut, adpVars, adjVars, symVars, syncVars, lifeVars, concVars, acctVars>>

\* connect returned or raised (lines 86-93)
ConnectReturns(t) ==
    /\ task[t].pc = "connecting"
    /\ \E ok \in BOOLEAN :
         /\ active' = connect_outcome(active, task[t].key, task[t].adapter, ok)
         /\ adapters' = [adapters EXCEPT ![task[t].adapter].state =
                                             IF ok THEN "connected" ELSE "failed"]
         /\ task' = [task EXCEPT ![t] =
                       IF ok THEN Returned(task[t], task[t].adapter, LeaderKey)
                       ELSE [task[t] EXCEPT !.pc = "closing"]]
    /\ UNCHANGED <<leaderSlot, overlap, sysVars, calcIn, calcOut, adpVars, adjVars, symVars, syncVars, lifeVars, concVars, acctVars>>

\* the close of the half-built adapter returned or raised (lines 93-94)
CloseReturns(t) ==
    /\ task[t].pc = "closing"
    /\ \E ok \in BOOLEAN :
         /\ adapters' = [adapters EXCEPT ![task[t].adapter].closeTried = TRUE,
                                         ![task[t].adapter].closed = ok]
         /\ task' = [task EXCEPT ![t] =
                       Returned(task[t], IF ok THEN 0 ELSE -1, LeaderKey)]
    /\ UNCHANGED <<active, leaderSlot, overlap, sysVars, calcIn, calcOut, adpVars, adjVars, symVars, syncVars, lifeVars, concVars, acctVars>>

\* a variant of the loop in which a failing close ends the call
close_all_uncaught(ok, rest) ==
    IF ~ok THEN "raise" ELSE IF rest = <<>> THEN "clear" ELSE "next"

\* close_all_adapters lines 99-104: after one close returned (ok) or raised,
\* with rest the adapters still to close
close_all_after(ok, rest) == IF rest = <<>> THEN "clear" ELSE "next"

\* close_all_adapters up to its first await (lines 96-101)
CloseAllBegin(t) ==
    /\ task[t].pc = "idle"
    /\ IF active = <<>>
       THEN /\ active' = <<>>
            /\ adapters' = close_all_returned(adapters)
            /\ task' = [task EXCEPT ![t] =
                          [IdleTask EXCEPT !.purpose = "close_all", !.status = "ok"]]
       ELSE /\ active' = active
            /\ adapters' = adapters
            /\ task' = [task EXCEPT ![t] =
                          [IdleTask EXCEPT !.pc = "closing_all",
                                           !.purpose = "close_all",
                                           !.todo = active, !.snapshot = active]]
    /\ overlap' = (overlap \/ Busy(t))
    /\ UNCHANGED <<leaderSlot, sysVars, calcIn, calcOut, adpVars, adjVars, symVars, syncVars, lifeVars, concVars, acctVars>>

\* one close of the loop returned or raised (lines 100-104)
CloseAllStep(t) ==
    /\ task[t].pc = "closing_all"
    /\ \E ok \in BOOLEAN :
       \E a \in {Head(task[t].todo).adapter} :
       \E next \in {close_all_after(ok, Tail(task[t].todo))} :
         /\ \E objs \in {[adapters EXCEPT ![a].closeTried = TRUE, ![a].closed = (@ \/ ok)]} :
               adapters' = IF next = "next" THEN objs ELSE close_all_returned(objs)
         /\ active' = IF next = "clear" THEN <<>> ELSE active
         /\ task' = [task EXCEPT ![t] =
                       IF next = "next"
                       THEN [task[t] EXCEPT !.todo = Tail(task[t].todo)]
                       ELSE [task[t] EXCEPT !.pc = "idle", !.todo = <<>>,
                                            !.left = active',
                                            !.status = IF next = "clear" THEN "ok"
                                                       ELSE "raised"]]
    /\ UNCHANGED <<leaderSlot, overlap, sysVars, calcIn, calcOut, adpVars, adjVars, symVars, syncVars, lifeVars, concVars, acctVars>>

NextMgr ==
    \/ SetLeader
    \/ \E t \in Tasks : GetAdapter(t)
    \/ \E t \in Tasks : ConnectReturns(t)
    \/ \E t \in Tasks : CloseReturns(t)
    \/ \E t \in Tasks : CloseAllBegin(t)
    \/ \E t \in Tasks : CloseAllStep(t)

InitMgr ==
    /\ SysIdle
    /\ calcIn = CalcIdle
    /\ calcOut = [done |-> FALSE, res |-> NoResult]
    /\ MgrIdle
    /\ AdpIdle
    /\ AdjIdle
    /\ SymIdle
    /\ SyncIdle
    /\ LifeIdle
    /\ ConcIdle
    /\ AcctIdle

SpecMgr == InitMgr /\ [][NextMgr]_vars

\* ------------------------------------------------------------------------
\* One BinanceAdapter and the calls made on it.  exchange.open is
\* self.exchange (set: connected), exchange.qty the position the account
\* behind it holds.
\* ------------------------------------------------------------------------
PlaceRequests ==
    [op : {"place_order"}, order_type : {"market", "limit", "post_only"},
     has_price : BOOLEAN, post_only : BOOLEAN, side : {"buy", "sell"},
     amount : {Step}, reduceOnly : BOOLEAN]

SetLeverageErrors ==
    {NoError} \cup
    [raised : {TRUE}, isExchangeError : BOOLEAN, hasCode : BOOLEAN,
     code : {MarginNoChangeCode, MarginNoChangeCode - 1}, noNeedText : BOOLEAN]

\* connect, lines 21-43: self.exchange is assigned before load_markets, so it
\* stays set when load_markets fails and ConnectionError is raised
AdapterConnect ==
    /\ ~exchange.open
    /\ \E ok \in BOOLEAN :
         /\ exchange' = [exchange EXCEPT !.open = TRUE]
         /\ areq' = [op |-> "connect"]
         /\ ares' = [NoCallResult EXCEPT !.done = TRUE,
                        !.raised = IF ok THEN "none" ELSE "ConnectionError"]
    /\ UNCHANGED <<sysVars, calcIn, calcOut, mgrVars, adjVars, symVars, syncVars, lifeVars, concVars, acctVars>>

\* close, lines 45-50
AdapterClose ==
    /\ exchange.open
    /\ exchange' = [exchange EXCEPT !.open = FALSE]
    /\ areq' = [op |-> "close"]
    /\ ares' = [NoCallResult EXCEPT !.done = TRUE, !.connected = TRUE]
    /\ UNCHANGED <<sysVars, calcIn, calcOut, mgrVars, adjVars, symVars, syncVars, lifeVars, concVars, acctVars>>

PlaceOrder ==
    \E q \in PlaceRequests :
      \E outcome \in Outcomes(IF q.order_type = "market" THEN "market" ELSE "limit") :
        \E r \in {place_order_call(exchange.open, q.order_type, q.has_price,
                                   q.post_only, exchange.qty, q.side, q.amount,
                                   q.reduceOnly, outcome)} :
          /\ Abs(r.qty) <= MaxAdapterLots * Step
          /\ areq' = q
          /\ ares' = [NoCallResult EXCEPT !.done = TRUE, !.connected = exchange.open,
                         !.raised = r.raised, !.sent = r.sent,
                         !.sent_type = r.sent_type, !.postOnly = r.postOnly,
                         !.order = r.order]
          /\ exchange' = [exchange EXCEPT !.qty = r.qty]
          /\ UNCHANGED <<sysVars, calcIn, calcOut, mgrVars, adjVars, symVars, syncVars, lifeVars, concVars, acctVars>>

SetLeverage ==
    \E e \in SetLeverageErrors, retryOk \in BOOLEAN :
      \E r \in {set_leverage_call(exchange.open, e, retryOk)} :
        /\ areq' = [op |-> "set_leverage", e |-> e, retryOk |-> retryOk]
        /\ ares' = [NoCallResult EXCEPT !.done = TRUE, !.connected = exchange.open,
                       !.raised = r.raised, !.value = r.value,
                       !.retried = r.retried]
        /\ UNCHANGED <<exchange, sysVars, calcIn, calcOut, mgrVars, adjVars, symVars, syncVars, lifeVars, concVars, acctVars>>

NextAdapter ==
    \/ AdapterConnect
    \/ AdapterClose
    \/ PlaceOrder
    \/ SetLeverage

InitAdapter ==
    /\ SysIdle
    /\ calcIn = CalcIdle
    /\ calcOut = [done |-> FALSE, res |-> NoResult]
    /\ MgrIdle
    /\ AdpIdle
    /\ AdjIdle
    /\ SymIdle
    /\ SyncIdle
    /\ LifeIdle
    /\ ConcIdle
    /\ AcctIdle

SpecAdapter == InitAdapter /\ [][NextAdapter]_vars

\* ------------------------------------------------------------------------
\* The limit adjustment on its own: inputs drawn from bounded sets.  The
\* amount is any positive float, on the lot grid or not; amount.min is a
\* multiple of the lot step.
\* ------------------------------------------------------------------------
AdjustAmounts == {R(k, 2) : k \in 1..MaxAdjustHalves}
AdjustMinAmounts == {0, Step, 2 * Step}
AdjustMinCosts == {0, 30, 35}
AdjustPrices == {0, 10}

InitAdjust ==
    /\ SysIdle
    /\ calcIn = CalcIdle
    /\ calcOut = [done |-> FALSE, res |-> NoResult]
    /\ MgrIdle
    /\ AdpIdle
    /\ adjIn \in [amount : AdjustAmounts, min_amount : AdjustMinAmounts,
                   min_cost : AdjustMinCosts, price : AdjustPrices,
                   infoOk : BOOLEAN]
    /\ adjOut = [done |-> FALSE, res |-> [ok |-> FALSE, amount |-> 0]]
    /\ SymIdle
    /\ SyncIdle
    /\ LifeIdle
    /\ ConcIdle
    /\ AcctIdle

Adjust ==
    /\ ~adjOut.done
    /\ adjOut' = [done |-> TRUE,
                  res |-> adjust_amount_for_limits(adjIn.amount, adjIn.min_amount,
                                                   adjIn.min_cost, adjIn.price,
                                                   adjIn.infoOk)]
    /\ UNCHANGED <<adjIn, sysVars, calcIn, calcOut, mgrVars, adpVars, symVars, syncVars, lifeVars, concVars, acctVars>>

NextAdjust == Adjust

SpecAdjust == InitAdjust /\ [][NextAdjust]_vars

\* ------------------------------------------------------------------------
\* The symbol canonicalization on its own: every string up to a length over
\* a small alphabet
\* ------------------------------------------------------------------------
SymbolChars == {"b", "T", "R", "Y", "/", "-", " ", ":"}

Symbols == UNION {[1..k -> SymbolChars] : k \in 0..MaxSymbolLen}

InitSymbol ==
    /\ SysIdle
    /\ calcIn = CalcIdle
    /\ calcOut = [done |-> FALSE, res |-> NoResult]
    /\ MgrIdle
    /\ AdpIdle
    /\ AdjIdle
    /\ SyncIdle
    /\ LifeIdle
    /\ ConcIdle
    /\ AcctIdle
    /\ symIn \in Symbols
    /\ symOut = [done |-> FALSE, once |-> <<>>, twice |-> <<>>]

Canonicalize ==
    /\ ~symOut.done
    /\ symOut' = [done |-> TRUE, once |-> format_symbol_for_ccxt(symIn),
                  twice |-> format_symbol_for_ccxt(format_symbol_for_ccxt(symIn))]
    /\ UNCHANGED <<symIn, sysVars, calcIn, calcOut, mgrVars, adpVars, adjVars, syncVars, lifeVars, concVars, acctVars>>

NextSymbol == Canonicalize

SpecSymbol == InitSymbol /\ [][NextSymbol]_vars

\* ------------------------------------------------------------------------
\* SyncService: the reconciliation loop and one cycle over one follower.
\* The loop task is suspended at an await between two steps; every action
\* below runs from one await to the next.
\*   sync.loop  "none" no task yet, "ready" at the top of the while,
\*              "cycle" inside _run_sync_cycle, "sleep" in asyncio.sleep,
\*              "ended" the task is over
\*   cyc.pc     what the cycle does when it is resumed: "leader" read the
\*              leader account, "follower" begin _synchronize_follower,
\*              "orphans" place the next orphan close, "gate" decide
\*              _should_late_join for the next missing symbol, "leverage"
\*              set the leverage and size the order, "order" place the
\*              late-join order (the leverage is set), "done" return from
\*              the follower task
\* ------------------------------------------------------------------------
LATE_JOIN_MAX_PRICE_CHANGE_PERCENT == R(3, 4)

LATE_JOIN_MAX_AGE_MINUTES == 30

\* what the leader can hold on one symbol: timestamp_ms set or 0, and an
\* entry price the exchange reported as 0
LeaderHoldings ==
    {NoPosition,
     [side |-> "long", contracts |-> 4, entry_price |-> 10000, stamped |-> TRUE],
     [side |-> "short", contracts |-> 4, entry_price |-> 10000, stamped |-> FALSE],
     [side |-> "long", contracts |-> 4, entry_price |-> 0, stamped |-> TRUE]}

FollowerHoldings == {0, Step, -Step}

\* what get_ticker gives: it raises, the ticker has no 'last', or a price
Tickers ==
    {[outcome |-> "raises", last |-> 0], [outcome |-> "null", last |-> 0]}
    \cup {[outcome |-> "ok", last |-> p] : p \in {10000, 10075, 10076}}

\* the age in seconds that now - timestamp_ms gives
Ages == {600, 1800, 1801}

\* _should_late_join without its age gate
should_late_join_any_age(leader_pos, ticker, age) ==
    /\ ticker.outcome = "ok"
    /\ leader_pos.entry_price # 0
    /\ ~RLt(RDiv(LATE_JOIN_MAX_PRICE_CHANGE_PERCENT, RInt(100)), R(Abs(ticker.last - leader_pos.entry_price), leader_pos.entry_price))

\* _should_late_join: any exception (get_ticker raising, float(None), the
\* division by an entry price of 0) gives False
should_late_join(leader_pos, ticker, age) ==
    IF ticker.outcome # "ok" THEN FALSE
    ELSE IF leader_pos.entry_price = 0 THEN FALSE
    ELSE IF RLt(RDiv(LATE_JOIN_MAX_PRICE_CHANGE_PERCENT, RInt(100)), R(Abs(ticker.last - leader_pos.entry_price), leader_pos.entry_price)) THEN FALSE
    ELSE IF leader_pos.stamped /\ age > LATE_JOIN_MAX_AGE_MINUTES * 60 THEN FALSE
    ELSE TRUE

\* a loop that a raising cycle ends
loop_after_error_exits(outcome) == IF outcome = "error" THEN "ended" ELSE "sleep"

\* _sync_loop after a cycle, whatever its outcome: the sleep
loop_after(outcome) == "sleep"

\* the late-join loop: the leader symbols the follower was not seen to hold
enter_late(c) ==
    LET missing == SelectSeq(SyncSymbols, LAMBDA s : s \in c.leader_positions /\ c.follower_positions[s] = 0)
    IN  [c EXCEPT !.todo = missing, !.pc = IF missing = <<>> THEN "done" ELSE "gate"]

\* the orphan loop: the follower symbols the leader was not seen to hold
enter_orphans(c) ==
    LET orphans == SelectSeq(SyncSymbols, LAMBDA s : c.follower_positions[s] # 0 /\ s \notin c.leader_positions)
    IN  IF orphans = <<>> THEN enter_late(c) ELSE [c EXCEPT !.todo = orphans, !.pc = "orphans"]

next_late(c) ==
    LET rest == Tail(c.todo)
    IN  [c EXCEPT !.todo = rest, !.pc = IF rest = <<>> THEN "done" ELSE "gate"]

\* the except Exception of _synchronize_follower: the task logs and returns
follower_raised(c) == [c EXCEPT !.pc = "done", !.raised = TRUE]

orphan_order(symbol, qty) ==
    [kind |-> "orphan", symbol |-> symbol, type |-> "market",
     side |-> IF SideOf(qty) = "long" THEN "sell" ELSE "buy", amount |-> Abs(qty),
     reduceOnly |-> TRUE, ticker |-> NoTicker, age |-> 0, leverage_set |-> FALSE]

late_join_order(symbol, leader_pos, amount, ticker, age, leverage_set) ==
    [kind |-> "late_join", symbol |-> symbol, type |-> "market",
     side |-> IF leader_pos.side = "long" THEN "buy" ELSE "sell", amount |-> amount,
     reduceOnly |-> FALSE, ticker |-> ticker, age |-> age, leverage_set |-> leverage_set]

SyncOthers == <<sysVars, calcIn, calcOut, mgrVars, adpVars, adjVars, symVars, lifeVars, concVars, acctVars>>

\* start: a second start while running does nothing
Start ==
    /\ ~sync.running
    /\ sync' = [running |-> TRUE, loop |-> "ready", failed |-> FALSE, afterFailure |-> FALSE]
    /\ cyc' = NoCycle
    /\ UNCHANGED <<lead, fol, SyncOthers>>

\* stop: the flag, then cancel(): CancelledError is raised in the task at the
\* await where it is suspended, which no except Exception catches, and the
\* gather hands it to the follower task
Stop ==
    /\ sync.running
    /\ sync' = [sync EXCEPT !.running = FALSE, !.loop = "ended"]
    /\ UNCHANGED <<lead, fol, cyc, SyncOthers>>

CycleBegin ==
    /\ sync.running
    /\ sync.loop = "ready"
    /\ sync' = [sync EXCEPT !.loop = "cycle", !.afterFailure = sync.failed, !.failed = FALSE]
    /\ cyc' = [NoCycle EXCEPT !.pc = "leader"]
    /\ UNCHANGED <<lead, fol, SyncOthers>>

\* _run_sync_cycle up to the gather: no leader adapter or a leader equity of
\* at most 1 ends the cycle, an exception leaves it, a failed position read
\* is an empty list
LeaderRead ==
    /\ sync.loop = "cycle"
    /\ cyc.pc = "leader"
    /\ \E outcome \in {"ok", "abort", "error"}, lread \in BOOLEAN :
        IF outcome = "ok"
        THEN /\ cyc' = [cyc EXCEPT !.pc = "follower", !.leader_read = lread,
                            !.leader_positions = IF lread THEN {s \in SyncSymbolSet : lead[s].side # "none"} ELSE {}]
             /\ UNCHANGED sync
        ELSE /\ lread
             /\ cyc' = NoCycle
             /\ sync' = [sync EXCEPT !.loop = loop_after(outcome), !.failed = (outcome = "error")]
    /\ UNCHANGED <<lead, fol, SyncOthers>>

\* _synchronize_follower up to the loops: no adapter or a follower equity of
\* at most 1 ends the task
FollowerBegin ==
    /\ sync.loop = "cycle"
    /\ cyc.pc = "follower"
    /\ \E adapterOk \in BOOLEAN, fread \in BOOLEAN, equityOk \in BOOLEAN :
        IF adapterOk /\ equityOk
        THEN cyc' = enter_orphans([cyc EXCEPT !.admitted = TRUE, !.held = fol,
                                       !.follower_positions = IF fread THEN fol ELSE [s \in SyncSymbolSet |-> 0]])
        ELSE /\ fread
             /\ adapterOk \/ equityOk
             /\ cyc' = [cyc EXCEPT !.pc = "done", !.held = fol]
    /\ UNCHANGED <<sync, lead, fol, SyncOthers>>

\* A. the orphan close of the next symbol
OrphanClose ==
    /\ sync.loop = "cycle"
    /\ cyc.pc = "orphans"
    /\ \E outcome \in {"closed", "failed", "raised"} :
        LET s == Head(cyc.todo)
            order == orphan_order(s, cyc.follower_positions[s])
        IN  IF outcome = "raised"
            THEN /\ cyc' = follower_raised(cyc)
                 /\ fol' = fol
            ELSE /\ cyc' = IF Tail(cyc.todo) = <<>>
                           THEN enter_late([cyc EXCEPT !.orders = Append(@, order)])
                           ELSE [cyc EXCEPT !.orders = Append(@, order), !.todo = Tail(@)]
                 /\ fol' = IF outcome = "closed" THEN [fol EXCEPT ![s] = 0] ELSE fol
    /\ UNCHANGED <<sync, lead, SyncOthers>>

\* B. _should_late_join for the next missing symbol
LateGate ==
    /\ sync.loop = "cycle"
    /\ cyc.pc = "gate"
    /\ \E ticker \in Tickers, age \in Ages :
        cyc' = IF should_late_join(lead[Head(cyc.todo)], ticker, age)
               THEN [cyc EXCEPT !.pc = "leverage", !.ticker = ticker, !.age = age]
               ELSE next_late(cyc)
    /\ UNCHANGED <<sync, lead, fol, SyncOthers>>

\* set_leverage, calculate_follower_amount (0: no result or no amount) and
\* the second set_leverage, whose answer (levOk) is not looked at
LateLeverage ==
    /\ sync.loop = "cycle"
    /\ cyc.pc = "leverage"
    /\ \E amount \in {0, Step}, raised \in BOOLEAN, levOk \in BOOLEAN :
        /\ (raised \/ amount = 0) => levOk
        /\ cyc' = IF raised THEN follower_raised(cyc)
                  ELSE IF amount > 0
                  THEN [cyc EXCEPT !.pc = "order", !.amount = amount, !.leverage_set = levOk]
                  ELSE next_late(cyc)
    /\ UNCHANGED <<sync, lead, fol, SyncOthers>>

LatePlace ==
    /\ sync.loop = "cycle"
    /\ cyc.pc = "order"
    /\ \E outcome \in {"closed", "failed", "raised"} :
        LET s == Head(cyc.todo)
            order == late_join_order(s, lead[s], cyc.amount, cyc.ticker, cyc.age, cyc.leverage_set)
        IN  IF outcome = "raised"
            THEN /\ cyc' = follower_raised(cyc)
                 /\ fol' = fol
            ELSE /\ cyc' = next_late([cyc EXCEPT !.orders = Append(@, order)])
                 /\ fol' = IF outcome = "closed"
                           THEN [fol EXCEPT ![s] = IF order.side = "buy" THEN cyc.amount ELSE -cyc.amount]
                           ELSE fol
    /\ UNCHANGED <<sync, lead, SyncOthers>>

\* the gather returned: back in _sync_loop
CycleEnd ==
    /\ sync.loop = "cycle"
    /\ cyc.pc = "done"
    /\ sync' = [sync EXCEPT !.loop = loop_after("ok")]
    /\ cyc' = NoCycle
    /\ UNCHANGED <<lead, fol, SyncOthers>>

SleepEnd ==
    /\ sync.loop = "sleep"
    /\ sync' = [sync EXCEPT !.loop = "ready"]
    /\ UNCHANGED <<lead, fol, cyc, SyncOthers>>

LoopStep ==
    \/ CycleBegin
    \/ LeaderRead
    \/ FollowerBegin
    \/ OrphanClose
    \/ LateGate
    \/ LateLeverage
    \/ LatePlace
    \/ CycleEnd
    \/ SleepEnd

NextSync ==
    \/ Start
    \/ Stop
    \/ LoopStep

InitSync ==
    /\ SysIdle
    /\ calcIn = CalcIdle
    /\ calcOut = [done |-> FALSE, res |-> NoResult]
    /\ MgrIdle
    /\ AdpIdle
    /\ AdjIdle
    /\ SymIdle
    /\ sync = NoSync
    /\ lead \in [SyncSymbolSet -> LeaderHoldings]
    /\ fol \in [SyncSymbolSet -> FollowerHoldings]
    /\ cyc = NoCycle
    /\ LifeIdle
    /\ ConcIdle
    /\ AcctIdle

\* the event loop runs a task that can run, and every exchange call returns
SpecSync == InitSync /\ [][NextSync]_vars /\ WF_vars(LoopStep)

\* ------------------------------------------------------------------------
\* SyncService.start and stop under interleaving.  life.loops holds every
\* loop task created so far: "pending" (created, not yet run), "cycle",
\* "sleep", "cancelling" (cancel() was called, the CancelledError is not
\* yet delivered), "done".  start runs without an await; stop is suspended
\* in await self._task until that task is done.
\* ------------------------------------------------------------------------
\* Task.cancel() left out
cancel_ignored(state) == state

\* Task.cancel(): the task is woken with CancelledError at its await
cancel(state) == IF state = "done" THEN "done" ELSE "cancelling"

Uncancelled == {"pending", "cycle", "sleep"}

\* start (lines 32-38)
LifeStart ==
    /\ IF life.is_running
       THEN life' = [life EXCEPT !.last = "start"]
       ELSE /\ Len(life.loops) < MaxLoops
            /\ life' = [life EXCEPT !.is_running = TRUE,
                                    !.loops = Append(@, "pending"),
                                    !.task = Len(life.loops) + 1,
                                    !.last = "start"]
    /\ UNCHANGED <<sysVars, calcIn, calcOut, mgrVars, adpVars, adjVars, symVars, syncVars, concVars, acctVars>>

\* stop up to its await (lines 40-48)
LifeStop(c) ==
    /\ life.stop[c].pc = "idle"
    /\ IF ~life.is_running \/ life.task = 0
       THEN life' = [life EXCEPT !.last = "stop", !.stop[c].target = 0]
       ELSE life' = [life EXCEPT !.is_running = FALSE,
                                 !.loops[life.task] = cancel(@),
                                 !.stop[c] = [pc |-> "awaiting", target |-> life.task],
                                 !.last = "stop"]
    /\ UNCHANGED <<sysVars, calcIn, calcOut, mgrVars, adpVars, adjVars, symVars, syncVars, concVars, acctVars>>

\* await self._task returned (lines 48-51)
LifeStopReturns(c) ==
    /\ life.stop[c].pc = "awaiting"
    /\ life.loops[life.stop[c].target] = "done"
    /\ life' = [life EXCEPT !.stop[c].pc = "idle", !.last = "returned"]
    /\ UNCHANGED <<sysVars, calcIn, calcOut, mgrVars, adpVars, adjVars, symVars, syncVars, concVars, acctVars>>

\* _sync_loop of task i from one await to the next (lines 53-68)
LifeLoopStep(i) ==
    /\ life.loops[i] \in Uncancelled
    /\ life' = [life EXCEPT !.last = "loop",
                            !.loops[i] = IF ~life.is_running THEN "done"
                                         ELSE IF @ = "cycle" THEN "sleep" ELSE "cycle"]
    /\ UNCHANGED <<sysVars, calcIn, calcOut, mgrVars, adpVars, adjVars, symVars, syncVars, concVars, acctVars>>

\* the CancelledError reaches task i: it leaves the cycle or breaks out of
\* the sleep
LifeUnwind(i) ==
    /\ life.loops[i] = "cancelling"
    /\ life' = [life EXCEPT !.last = "loop", !.loops[i] = "done"]
    /\ UNCHANGED <<sysVars, calcIn, calcOut, mgrVars, adpVars, adjVars, symVars, syncVars, concVars, acctVars>>

NextLife ==
    \/ LifeStart
    \/ \E c \in StopCallers : LifeStop(c)
    \/ \E c \in StopCallers : LifeStopReturns(c)
    \/ \E i \in 1..Len(life.loops) : LifeLoopStep(i)
    \/ \E i \in 1..Len(life.loops) : LifeUnwind(i)

InitLife ==
    /\ SysIdle
    /\ calcIn = CalcIdle
    /\ calcOut = [done |-> FALSE, res |-> NoResult]
    /\ MgrIdle
    /\ AdpIdle
    /\ AdjIdle
    /\ SymIdle
    /\ SyncIdle
    /\ life = NoLife
    /\ ConcIdle
    /\ AcctIdle

SpecLife == InitLife /\ [][NextLife]_vars

\* ------------------------------------------------------------------------
\* Two market open commands and a reconciliation cycle working on one
\* follower and one symbol.  Every adapter call is two steps: the request is
\* sent (the coroutine is suspended in the await) and it is answered.
\*   conc.exec[e]  "idle", "leader_order" (in the handler's place_order),
\*                 "replicate" (in the reads of replicate_action),
\*                 "f_leverage" and "f_order" (in the follower's set_leverage
\*                 and place_order), "done"
\*   conc.syncf    "idle", "gate" (in get_ticker), "leverage" (in
\*                 set_leverage), "order" (in place_order), "done"
\*   inflight      the state-changing calls not yet answered on the
\*                 follower's adapter
\*   log           the orders in the order they were sent
\* Orders are filled; lpos and fpos count the lots held.
\* ------------------------------------------------------------------------
InProgress(e) == conc.exec[e] \notin {"idle", "done"}

ConcOthers == <<sysVars, calcIn, calcOut, mgrVars, adpVars, adjVars, symVars, syncVars, lifeVars, acctVars>>

\* execute is entered; nothing in it waits for an execute in progress
\* (command_executor.py lines 24-74); the second command comes after the first
ExecBegin(e) ==
    /\ conc.exec[e] = "idle"
    /\ e = 2 => conc.exec[1] # "idle"
    /\ conc' = [conc EXCEPT !.exec[e] = "leader_order",
                            !.log = Append(@, [by |-> e, on |-> "leader", kind |-> "open"]),
                            !.overlapped = (@ \/ \E o \in Commands \ {e} : InProgress(o))]
    /\ UNCHANGED ConcOthers

\* the leader's order is answered, replicate_action is entered
ExecLeaderAnswered(e) ==
    /\ conc.exec[e] = "leader_order"
    /\ conc' = [conc EXCEPT !.exec[e] = "replicate", !.lpos = @ + 1]
    /\ UNCHANGED ConcOthers

\* replicate_action read the leader account; the follower's coroutine sized
\* the order and sent set_leverage (replication_service.py lines 161-177)
ExecFanOut(e) ==
    /\ conc.exec[e] = "replicate"
    /\ conc' = [conc EXCEPT !.exec[e] = "f_leverage",
                            !.inflight = @ \cup {[by |-> e, op |-> "set_leverage"]}]
    /\ UNCHANGED ConcOthers

\* set_leverage is answered, place_order is sent (lines 185-192)
ExecFollowerOrder(e) ==
    /\ conc.exec[e] = "f_leverage"
    /\ conc' = [conc EXCEPT !.exec[e] = "f_order",
                            !.inflight = (@ \ {[by |-> e, op |-> "set_leverage"]})
                                             \cup {[by |-> e, op |-> "place_order"]},
                            !.log = Append(@, [by |-> e, on |-> "follower", kind |-> "open"])]
    /\ UNCHANGED ConcOthers

ExecFollowerAnswered(e) ==
    /\ conc.exec[e] = "f_order"
    /\ conc' = [conc EXCEPT !.exec[e] = "done",
                            !.inflight = @ \ {[by |-> e, op |-> "place_order"]},
                            !.fpos = @ + 1]
    /\ UNCHANGED ConcOthers

\* a cycle read both accounts (sync_service.py lines 74, 101): a leader
\* symbol the follower was not seen to hold goes to the gate
ConcSyncRead ==
    /\ conc.syncf = "idle"
    /\ conc' = [conc EXCEPT !.leader_seen = (conc.lpos > 0),
                            !.follower_seen = (conc.fpos > 0),
                            !.syncf = IF conc.lpos > 0 /\ conc.fpos = 0 THEN "gate" ELSE "done"]
    /\ UNCHANGED ConcOthers

\* _should_late_join answered; on True set_leverage is sent (lines 123-127)
ConcSyncGate ==
    /\ conc.syncf = "gate"
    /\ \E admitted \in BOOLEAN :
        conc' = IF admitted
                THEN [conc EXCEPT !.syncf = "leverage",
                                  !.inflight = @ \cup {[by |-> 0, op |-> "set_leverage"]}]
                ELSE [conc EXCEPT !.syncf = "done"]
    /\ UNCHANGED ConcOthers

\* the leverage calls and the sizing are answered, place_order is sent
\* (lines 129-151)
ConcSyncOrder ==
    /\ conc.syncf = "leverage"
    /\ conc' = [conc EXCEPT !.syncf = "order",
                            !.inflight = (@ \ {[by |-> 0, op |-> "set_leverage"]})
                                             \cup {[by |-> 0, op |-> "place_order"]},
                            !.log = Append(@, [by |-> 0, on |-> "follower", kind |-> "late_join"])]
    /\ UNCHANGED ConcOthers

ConcSyncAnswered ==
    /\ conc.syncf = "order"
    /\ conc' = [conc EXCEPT !.syncf = "done",
                            !.inflight = @ \ {[by |-> 0, op |-> "place_order"]},
                            !.fpos = @ + 1]
    /\ UNCHANGED ConcOthers

\* the sleep is over: the next cycle
ConcSyncAgain ==
    /\ conc.syncf = "done"
    /\ conc' = [conc EXCEPT !.syncf = "idle"]
    /\ UNCHANGED ConcOthers

NextConc ==
    \/ \E e \in Commands : ExecBegin(e)
    \/ \E e \in Commands : ExecLeaderAnswered(e)
    \/ \E e \in Commands : ExecFanOut(e)
    \/ \E e \in Commands : ExecFollowerOrder(e)
    \/ \E e \in Commands : ExecFollowerAnswered(e)
    \/ ConcSyncRead
    \/ ConcSyncGate
    \/ ConcSyncOrder
    \/ ConcSyncAnswered
    \/ ConcSyncAgain

InitConc ==
    /\ SysIdle
    /\ calcIn = CalcIdle
    /\ calcOut = [done |-> FALSE, res |-> NoResult]
    /\ MgrIdle
    /\ AdpIdle
    /\ AdjIdle
    /\ SymIdle
    /\ SyncIdle
    /\ LifeIdle
    /\ conc = NoConc
    /\ AcctIdle

SpecConc == InitConc /\ [][NextConc]_vars

\* ------------------------------------------------------------------------
\* The reconciliation loop on steady accounts: the service is started and
\* not stopped, the leader's positions do not change, every adapter is
\* available, every read is answered, the follower's equity is above 1 USDT
\* and every order is filled.  acct.leader_value_ok is what line 77 finds in
\* every cycle: the leader's total value read and above 1.0, or not.
\* ------------------------------------------------------------------------
SteadyLeaderRead ==
    /\ LeaderRead
    /\ IF acct.leader_value_ok
       THEN cyc'.pc = "follower" /\ cyc'.leader_read
       ELSE cyc'.pc = "none" /\ ~sync'.failed

SteadyFollowerBegin ==
    /\ FollowerBegin
    /\ cyc'.admitted
    /\ cyc'.follower_positions = fol

SteadyOrphanClose ==
    /\ OrphanClose
    /\ ~cyc'.raised
    /\ fol'[Head(cyc.todo)] = 0

SteadyLatePlace ==
    /\ LatePlace
    /\ ~cyc'.raised
    /\ fol'[Head(cyc.todo)] # 0

SteadyStep ==
    \/ CycleBegin
    \/ SteadyLeaderRead
    \/ SteadyFollowerBegin
    \/ SteadyOrphanClose
    \/ LateGate
    \/ LateLeverage
    \/ SteadyLatePlace
    \/ CycleEnd
    \/ SleepEnd

NextConverge ==
    \/ Start
    \/ SteadyStep

InitConverge ==
    /\ SysIdle
    /\ calcIn = CalcIdle
    /\ calcOut = [done |-> FALSE, res |-> NoResult]
    /\ MgrIdle
    /\ AdpIdle
    /\ AdjIdle
    /\ SymIdle
    /\ sync = NoSync
    /\ lead \in [SyncSymbolSet -> LeaderHoldings]
    /\ fol \in [SyncSymbolSet -> FollowerHoldings]
    /\ cyc = NoCycle
    /\ LifeIdle
    /\ ConcIdle
    /\ acct \in [leader_value_ok : BOOLEAN]

\* the event loop runs a task that can run, and every exchange call returns
SpecConverge == InitConverge /\ [][NextConverge]_vars /\ WF_vars(SteadyStep)

\* ------------------------------------------------------------------------
\* Properties
\* ------------------------------------------------------------------------
Ops == [i \in 1..Len(hres.calls) |-> hres.calls[i].op]

Orders == {i \in 1..Len(hres.calls) : hres.calls[i].op = "place_order"}

IsPrefix(s, t) == Len(s) <= Len(t) /\ \A i \in 1..Len(s) : s[i] = t[i]

OppositeSide(possSide) == IF possSide = "long" THEN "sell" ELSE "buy"

\* C1: after a flat start and a run of market buys, each replicated to the
\* follower with success at exactly the calculator's proportional amount (no
\* lift, no elevation, no truncation), the follower's contracts equal the
\* leader's contracts times follower equity / leader equity.
ProportionalSteadyState ==
    \A f \in Followers : grow[f] => fqty[f] * env.El = lqty * env.Ef[f]

\* C2: replicate_action is invoked only for a leader Order of type market
\* that executed (status not failed, canceled or unknown); in every other
\* case it is not invoked and no follower order is placed.
LeaderOrderExecuted ==
    /\ hres.kind = "order"
    /\ hres.order.order_type = "market"
    /\ hres.order.status \notin {"failed", "canceled", "unknown"}

ReplicateOnlyExecutedMarket ==
    cmd.action # "none" =>
        /\ rep.invoked => LeaderOrderExecuted
        /\ ~LeaderOrderExecuted => \A f \in Followers : ~rep.flog[f].placed

\* C3: for a buy/sell command the leader calls run in the order set_leverage,
\* amount adjustment, place_order, replication; place_order is reached only
\* after set_leverage returned true and the adjustment gave an amount; when
\* set_leverage returns false the result is a synthetic failed Order (id
\* null) with no place_order call and no replication.
OpenHandlerOrdering ==
    cmd.action \in {"buy", "sell"} =>
        /\ IsPrefix(Ops \o (IF rep.invoked THEN <<"replicate">> ELSE <<>>),
                    <<"set_leverage", "adjust_amount", "place_order", "replicate">>)
        /\ Len(hres.calls) >= 1
        /\ Orders # {} => hres.calls[1].ok /\ hres.calls[2].ok
        /\ ~hres.calls[1].ok =>
              /\ Len(hres.calls) = 1
              /\ hres.order.status = "failed"
              /\ hres.order.id_null
              /\ status = "failed"
              /\ ~rep.invoked

OpenHandlerOrderingWitness ==
    /\ cmd.action = "buy"
    /\ Len(hres.calls) = 3
    /\ rep.invoked
    /\ \E f \in Followers : rep.flog[f].placed

\* C4: a scale_in command, with the leader holding a position and a positive
\* amount that can be adjusted, places a non-reduce-only order on the leader
\* on the side of the position (buy for long, sell for short).
ScaleInPlacesOrder ==
    (/\ cmd.action = "scale_in"
     /\ Len(hres.calls) >= 2
     /\ hres.calls[1].ok
     /\ cmd.amount > 0
     /\ hres.calls[2].ok) =>
        \E i \in Orders :
            /\ ~hres.calls[i].reduceOnly
            /\ hres.calls[i].side = (IF hres.calls[1].side = "long" THEN "buy" ELSE "sell")

ScaleOutContract ==
    cmd.action = "scale_out" =>
        /\ \A i \in Orders :
              /\ hres.calls[1].ok
              /\ hres.calls[i].reduceOnly
              /\ hres.calls[i].side = OppositeSide(hres.calls[1].side)
              /\ 0 < hres.calls[i].amount
              /\ hres.calls[i].amount <= hres.calls[1].amount
        /\ (\/ RLe(original_amount_to_close(cmd, hres.calls[1].amount), RInt(0))
            \/ (Len(hres.calls) >= 2 /\ hres.calls[2].op = "adjust_amount"
                /\ hres.calls[2].amount > hres.calls[1].amount)) =>
              /\ Orders = {}
              /\ hres.order.status = "failed"

ScaleOutWitness ==
    /\ cmd.action = "scale_out"
    /\ Orders # {}
    /\ hres.order.status = "closed"
    /\ lqty # 0

\* C7: for a buy/sell command with leverage L that was executed and
\* replicated, the calculator is invoked for every follower with
\* leader_intended_leverage = L.
CalculatorGetsCommandLeverage ==
    (cmd.action \in {"buy", "sell"} /\ rep.invoked) =>
        \A f \in Followers :
            rep.flog[f].calcCalled => rep.flog[f].calcLev = cmd.leverage

\* C8: every non-null result of calculate_follower_amount has a leverage
\* between 1 and 50.
CalcLeverageBound ==
    (calcOut.done /\ calcOut.res.ok) =>
        (1 <= calcOut.res.leverage /\ calcOut.res.leverage <= FOLLOWER_MAX_LEVERAGE)

\* C9: for every non-null result of calculate_follower_amount,
\* amount * price / leverage <= 0.90 * follower equity, with price the price
\* the calculator used.
CalcBudgetSafety ==
    (calcOut.done /\ calcOut.res.ok) =>
        calcOut.res.amount * calc_price(calcIn.last, calcIn.mark) * 100
            <= BudgetPercent * calcIn.Ef * calcOut.res.leverage

\* a result reached on the leverage-elevation path
CalcBudgetWitness ==
    /\ calcOut.done
    /\ calcOut.res.ok
    /\ calcOut.res.leverage # calcIn.L
    /\ calcIn.L > 0

\* C10: a reduce-only replication (of a close_position or scale_out order)
\* never increases a follower's contracts: each follower order is flagged
\* reduceOnly, its amount is at most the follower's contracts, and the
\* follower holds no more contracts afterwards than before.
ReduceOnlyMonotone ==
    (cmd.action \in {"close_position", "scale_out"} /\ rep.invoked) =>
        \A f \in Followers :
            /\ rep.flog[f].placed =>
                  /\ rep.flog[f].reduceOnly
                  /\ rep.flog[f].amount <= rep.flog[f].pre
            /\ Abs(fqty[f]) <= rep.flog[f].pre

\* a partial close replicated to a follower that held a position
ReduceOnlyWitness ==
    /\ cmd.action = "scale_out"
    /\ rep.invoked
    /\ ~rep.placeholder
    /\ \E f \in Followers :
          /\ rep.flog[f].placed
          /\ rep.flog[f].status = "success"
          /\ 0 < Abs(fqty[f])
          /\ Abs(fqty[f]) < rep.flog[f].pre

SameKeyLive(i, j) ==
    /\ i # j
    /\ adapters[i].key = adapters[j].key
    /\ adapters[i].state = "connected" /\ ~adapters[i].closeTried
    /\ adapters[j].state = "connected" /\ ~adapters[j].closeTried

\* C11: under any interleaving of get_adapter calls for one key, at most one
\* adapter is constructed and connected for that key.
OneAdapterPerKey ==
    \A i, j \in 1..Len(adapters) : ~SameKeyLive(i, j)

\* C12: for sequential calls, a get_adapter for a key that is in the table
\* returns the cached adapter and constructs nothing, so a cached key has one
\* connected adapter only.
CachedAdapterReused ==
    ~overlap =>
        /\ \A t \in Tasks :
              (task[t].purpose \in {"execute", "follower"} /\ task[t].cached # 0) =>
                  /\ task[t].pc = "idle"
                  /\ task[t].result = task[t].cached
                  /\ task[t].adapter = 0
        /\ \A i, j \in 1..Len(adapters) : ~SameKeyLive(i, j)

CachedAdapterReusedWitness ==
    /\ ~overlap
    /\ \E t \in Tasks : task[t].cached # 0 /\ task[t].result = task[t].cached
    /\ Len(adapters) = 1

\* C13: an entry is added to the table only after connect succeeded; when
\* connect fails the half-built adapter is closed, None is returned and the
\* adapter is not in the table; for an exchange id without an adapter class
\* None is returned and nothing is constructed.
ConnectFailureReturnsNone ==
    /\ \A i \in 1..Len(active) : adapters[active[i].adapter].state = "connected"
    /\ \A t \in Tasks :
          /\ (task[t].pc = "idle" /\ task[t].did = "build"
              /\ adapters[task[t].adapter].state = "failed") =>
                 /\ task[t].result = 0
                 /\ adapters[task[t].adapter].closeTried
          /\ task[t].did = "unknown" =>
                 task[t].result = 0 /\ task[t].adapter = 0

\* C14: while the leader slot is unset, a get_adapter request for "leader"
\* returns None and constructs nothing, and execute reports failed without
\* invoking a handler.
LeaderSlotUnset ==
    \A t \in Tasks :
        (task[t].api.user_id = "leader" /\ ~task[t].slotSet) =>
            /\ task[t].pc = "idle"
            /\ task[t].result = 0
            /\ task[t].adapter = 0
            /\ task[t].purpose = "execute" =>
                  task[t].status = "failed" /\ ~task[t].handler

LeaderSlotUnsetWitness ==
    \E t \in Tasks :
        /\ task[t].api.user_id = "leader"
        /\ task[t].purpose = "execute"
        /\ ~task[t].slotSet
        /\ task[t].status = "failed"
        /\ Len(adapters) > 0

\* C15: close_all_adapters attempts close on every adapter that was in the
\* table and leaves the table empty when it returns, whether or not a close
\* failed; no failure leaves the call.
CloseAllClearsTable ==
    \A t \in Tasks :
        (task[t].purpose = "close_all" /\ task[t].pc = "idle") =>
            /\ task[t].status = "ok"
            /\ task[t].left = <<>>
            /\ \A i \in 1..Len(task[t].snapshot) :
                  adapters[task[t].snapshot[i].adapter].closeTried

\* two adapters were in the table and the first close failed
CloseAllClearsTableWitness ==
    \E t \in Tasks :
        /\ task[t].purpose = "close_all"
        /\ task[t].pc = "idle"
        /\ Len(task[t].snapshot) = 2
        /\ ~adapters[task[t].snapshot[1].adapter].closed
        /\ adapters[task[t].snapshot[2].adapter].closed

\* C16: the follower path never works on the leader's own account: no
\* follower's adapter is the adapter of the account in the leader slot.
LeaderNeverFollower ==
    \A t \in Tasks : ~task[t].onLeader

\* C17: in one fan-out every follower yields one record whose status is
\* success, failed or skipped, and the summary counts add up to the number of
\* followers.
FanOutOneRecordEach ==
    (rep.invoked /\ rep.status \in {"completed", "raised"}) =>
        /\ rep.status = "completed"
        /\ \A f \in Followers : rep.flog[f].status \in {"success", "failed", "skipped"}
        /\ summary(rep.flog).successful + summary(rep.flog).failed
               + summary(rep.flog).skipped = summary(rep.flog).total_followers

\* C18: on a connected adapter place_order never raises: a request that is
\* not sent or that the exchange rejects comes back as an Order with status
\* failed and id null; it raises only when the adapter is not connected.
PlaceOrderNeverRaises ==
    (ares.done /\ areq.op = "place_order") =>
        /\ ares.raised # "none" => ~ares.connected
        /\ (ares.connected /\ areq.order_type = "post_only" /\ ~areq.has_price) =>
               /\ ares.raised = "none"
               /\ ares.order.status = "failed"
               /\ ares.order.id_null

BelowLimit(a, min_amount, min_cost, p) ==
    \/ min_amount # 0 /\ RLt(a, RInt(min_amount))
    \/ min_cost # 0 /\ RLt(RMul(a, RInt(p)), RInt(min_cost))

\* C20: whenever adjust_amount_for_limits returns a value, the result is at
\* least the amount if the amount was below amount.min or its cost below
\* cost.min, and is the amount rounded to the lot step otherwise.
AdjustNoShrink ==
    (adjOut.done /\ adjOut.res.ok) =>
        IF BelowLimit(adjIn.amount, adjIn.min_amount, adjIn.min_cost, adjIn.price)
        THEN RLe(adjIn.amount, RInt(adjOut.res.amount))
        ELSE adjOut.res.amount = normalize_amount(adjIn.amount).amount

\* C21: canonicalizing a canonical symbol changes nothing:
\* format_symbol_for_ccxt(format_symbol_for_ccxt(x)) = format_symbol_for_ccxt(x).
CanonicalIdempotent ==
    symOut.done => symOut.twice = symOut.once

\* C22: execute never lets an exception out: every command is answered with
\* a record, and a command whose action has no handler is answered failed
\* with no leverage, order or replication call.
ExecuteNeverRaises ==
    /\ status # "raised"
    /\ cmd.action \in OtherActions =>
           /\ status = "failed"
           /\ hres.calls = <<>>
           /\ ~rep.invoked

\* C27: in a reduce-only replication the order placed on a follower is on
\* the side opposite to that follower's own position: sell when the follower
\* is long, buy when it is short.
ReduceOnlyOppositeOfFollower ==
    [][\A f \in Followers :
          (rep'.invoked /\ rep'.flog[f].placed /\ rep'.flog[f].reduceOnly) =>
              rep'.flog[f].side = OppositeSide(SideOf(fqty[f]))]_vars

\* C28: replicate_action aborts the whole fan-out, with no follower order
\* and no follower adapter call, when the leader's equity is at most 1 USDT,
\* and when the leader has no position on the symbol and the order is not
\* reduce-only.
FanOutAborted ==
    (rep.invoked /\ (env.El <= MinEquity
                     \/ (lqty = 0 /\ ~is_reduce_only(hres.order)))) =>
        /\ rep.status = "error"
        /\ \A f \in Followers :
              /\ rep.flog[f].status = "none"
              /\ ~rep.flog[f].placed
              /\ ~rep.flog[f].calcCalled
              /\ rep.flog[f].setLev = 0
              /\ Abs(fqty[f]) = rep.flog[f].pre

\* the leader's buy left it without a position; a follower holds one
FanOutAbortedWitness ==
    /\ rep.invoked
    /\ rep.status = "error"
    /\ env.El > MinEquity
    /\ lqty = 0
    /\ ~is_reduce_only(hres.order)
    /\ \E f \in Followers : fqty[f] # 0

\* a follower's coroutine got past its adapter and equity gates
PastGates(f) == env.Ef[f] > MinEquity /\ rep.flog[f].side # "none"

FractionOfFollower(pre, filled, post) ==
    normalize_amount(RMul(RInt(pre), R(filled, post + filled)))

\* C30: after a reduce-only leader order that leaves the leader a position,
\* each follower past its gates that holds the symbol gets an order for its
\* contracts x filled / (leader post-trade contracts + filled), rounded to
\* the lot step (no order when that rounds to nothing).
PartialCloseFraction ==
    (rep.invoked /\ is_reduce_only(hres.order) /\ hres.order.filled > 0
        /\ lqty # 0 /\ env.El > MinEquity) =>
        \A f \in Followers :
            (PastGates(f) /\ rep.flog[f].pre > 0) =>
                IF FractionOfFollower(rep.flog[f].pre, hres.order.filled, Abs(lqty)).raised
                THEN ~rep.flog[f].placed
                ELSE /\ rep.flog[f].placed
                     /\ rep.flog[f].amount =
                            FractionOfFollower(rep.flog[f].pre, hres.order.filled,
                                               Abs(lqty)).amount

\* C23: when stop ends the loop, no follower task of the cycle in flight is
\* left part-way (in an orphan close, before the late-join gate, between
\* set_leverage and place_order)
StopCompletesCycle ==
    sync.loop = "ended" => cyc.pc \notin {"orphans", "gate", "leverage", "order"}

\* C24: while the service runs, only stop ends the loop; a cycle in flight
\* reaches the sleep and a sleep is followed by another cycle, also after a
\* cycle that raised
CyclesRecur ==
    /\ [](sync.loop = "ended" => ~sync.running)
    /\ (sync.running /\ sync.loop = "cycle") ~> (sync.loop = "sleep" \/ ~sync.running)
    /\ (sync.running /\ sync.loop = "sleep") ~> (sync.loop = "cycle" \/ ~sync.running)

CyclesRecurWitness == sync.running /\ sync.loop = "cycle" /\ sync.afterFailure

\* C25 as stated: every late-join order of a cycle was admitted by both
\* gates: the ticker was read, the last price is within 0.75% of the leader's
\* entry price, and a stamped leader position is younger than 30 minutes
LateJoinOnlyWhenYounger ==
    \A i \in DOMAIN cyc.orders :
        cyc.orders[i].kind = "late_join" =>
            LET o == cyc.orders[i]
                pos == lead[o.symbol]
            IN  /\ o.ticker.outcome = "ok"
                /\ pos.entry_price > 0
                /\ Abs(o.ticker.last - pos.entry_price) * 10000 <= 75 * pos.entry_price
                /\ pos.stamped => o.age < 30 * 60

\* C25: every late-join order of a cycle was admitted by both gates: the
\* ticker was read, the last price is within 0.75% of the leader's entry
\* price, and a stamped leader position is not older than 30 minutes (a
\* position of exactly 30 minutes is admitted)
LateJoinOnlyWhenAdmitted ==
    \A i \in DOMAIN cyc.orders :
        cyc.orders[i].kind = "late_join" =>
            LET o == cyc.orders[i]
                pos == lead[o.symbol]
            IN  /\ o.ticker.outcome = "ok"
                /\ pos.entry_price > 0
                /\ Abs(o.ticker.last - pos.entry_price) * 10000 <= 75 * pos.entry_price
                /\ pos.stamped => o.age <= 30 * 60

LateJoinAtBothLimits ==
    \E i \in DOMAIN cyc.orders :
        /\ cyc.orders[i].kind = "late_join"
        /\ lead[cyc.orders[i].symbol].stamped
        /\ cyc.orders[i].age = 30 * 60
        /\ cyc.orders[i].ticker.last = 10075

\* C26: when a follower task that passed its gates has returned, its
\* orphan-close orders are one reduce-only market order, opposite side, full
\* size, for each symbol the follower held and the leader does not hold, and
\* none for any other symbol
OrphanCloseExact ==
    (cyc.pc = "done" /\ cyc.admitted /\ ~cyc.raised) =>
        \A s \in SyncSymbolSet :
            LET os == {i \in DOMAIN cyc.orders : cyc.orders[i].kind = "orphan" /\ cyc.orders[i].symbol = s}
            IN  IF cyc.held[s] # 0 /\ lead[s].side = "none"
                THEN /\ Cardinality(os) = 1
                     /\ \A i \in os :
                            /\ cyc.orders[i].reduceOnly
                            /\ cyc.orders[i].type = "market"
                            /\ cyc.orders[i].amount = Abs(cyc.held[s])
                            /\ cyc.orders[i].side = OppositeSide(SideOf(cyc.held[s]))
                ELSE os = {}

\* C31: a cycle whose read of the leader's positions failed issues no order:
\* no orphan close and no late join
FailedLeaderReadAborts == ~cyc.leader_read => cyc.orders = <<>>

\* C37: a set_leverage command whose adapter call returned false, and a
\* cancel command without order_id (for which cancel_order is not called),
\* are reported with status failed
NonOrderFailureReported ==
    /\ (cmd.action = "set_leverage" /\ ~hres.value) => status = "failed"
    /\ (cmd.action = "cancel" /\ ~cmd.has_order_id) => (hres.calls = <<>> /\ status = "failed")

\* C38: a late-join order is placed only when the set_leverage before it,
\* with the calculator's leverage, returned true on that follower
OrderOnlyAfterLeverageSet ==
    \A i \in DOMAIN cyc.orders :
        cyc.orders[i].kind = "late_join" => cyc.orders[i].leverage_set

ShutdownReleasesAll ==
    (\A t \in Tasks : task[t].pc = "idle") =>
        \A i \in 1..Len(adapters) :
            (adapters[i].preClose /\ adapters[i].state = "connected") =>
                /\ adapters[i].closeTried
                /\ \A k \in 1..Len(active) : active[k].adapter # i

\* C40 as stated: at most one loop task is alive (created and not done)
OneLoopTaskAlive ==
    Cardinality({i \in 1..Len(life.loops) : life.loops[i] # "done"}) <= 1

\* C40: at most one loop task is alive that has not been cancelled, and it
\* is self._task of a running service; a stop that has returned left its
\* task done; start while running and stop while stopped change neither the
\* flag nor any task
OneLoopTaskUncancelled ==
    /\ [](\A i \in 1..Len(life.loops) :
              life.loops[i] \in Uncancelled => (life.is_running /\ life.task = i))
    /\ [](\A c \in StopCallers :
              (life.stop[c].pc = "idle" /\ life.stop[c].target # 0) =>
                  life.loops[life.stop[c].target] = "done")
    /\ [][(life'.last = "start" /\ life.is_running) =>
              (life'.loops = life.loops /\ life'.is_running /\ life'.task = life.task)]_vars
    /\ [][(life'.last = "stop" /\ ~life.is_running) =>
              (life'.loops = life.loops /\ ~life'.is_running /\ life'.task = life.task)]_vars

\* start was called while the task of the last stop had not yet unwound
OneLoopTaskWitness ==
    \E i, j \in 1..Len(life.loops) :
        /\ life.loops[i] = "cancelling"
        /\ life.loops[j] \in Uncancelled

\* C32: at most one execute is in progress, and no order of the second
\* command is sent before an order of the first
SerialDispatch ==
    /\ ~(InProgress(1) /\ InProgress(2))
    /\ \A i, j \in DOMAIN conc.log :
          (i < j /\ conc.log[i].by = 2) => conc.log[j].by # 1

\* C33: with one execute at a time, at most one state-changing call is in
\* flight on the follower's adapter, and one replicate_action sends at most
\* one order to the follower
OneCallInFlight ==
    ~conc.overlapped =>
        /\ Cardinality(conc.inflight) <= 1
        /\ \A e \in Commands :
              Cardinality({i \in DOMAIN conc.log : conc.log[i].by = e /\ conc.log[i].on = "follower"}) <= 1

\* C36: for one leader open, the follower is sent at most one opening
\* order, by the replication or by the late join
OneOpeningOrder ==
    conc.exec[2] = "idle" =>
        Cardinality({i \in DOMAIN conc.log : conc.log[i].on = "follower"}) <= 1

\* C34: with the loop running on steady accounts, a follower position on a
\* symbol the leader does not hold is eventually closed, and reconciliation
\* does not open a position on a symbol the leader does not hold
OrphanConvergence ==
    /\ \A s \in SyncSymbolSet :
          (sync.running /\ lead[s].side = "none" /\ fol[s] # 0) ~> (fol[s] = 0)
    /\ [][\A s \in SyncSymbolSet : (lead[s].side = "none" /\ fol[s] = 0) => fol'[s] = 0]_vars

====
